---- MODULE Spec2Model ----
(***************************************************************************)
(* The HNSW index access method of NeuronDB (src/index/hnsw_am.c and       *)
(* src/scan/hnsw_scan.c): the meta page, the node pages (one node per      *)
(* page), and the handlers hnswinsert, hnswbulkdelete, hnswdelete,         *)
(* hnswgettuple/hnswSearch and hnsw_search_layer.                          *)
(*                                                                         *)
(* Every handler is translated once, as an operator that runs the code on  *)
(* an index (pages, meta) and yields the index it leaves behind together   *)
(* with the sequence of buffer-manager events (lock, unlock, page write,   *)
(* interrupt check) it issues, in program order.  Spec composes whole      *)
(* handlers; SpecLock hands the same event sequences, one event at a time, *)
(* to a buffer manager with PostgreSQL's content-lock rules.  SpecScan     *)
(* runs an index scan (hnswrescan, hnswgettuple) between inserts and       *)
(* deletes, SpecSearch calls hnswSearch and hnsw_search_layer, SpecDim     *)
(* inserts vectors of several dimensions, SpecSize applies                 *)
(* hnswComputeNodeSizeSafe to its domain, SpecBuild runs hnswbuild over a  *)
(* heap with null values, SpecVacuum runs bulk-delete passes between       *)
(* inserts, SpecCorrupt searches an index with a neighbour count out of    *)
(* range, SpecRuns compares the graphs that one insert can leave,          *)
(* SpecRemove calls hnswRemoveNodeFromNeighbor as the deletes do,          *)
(* SpecExplore records the order of hnswSearch's layer-0 loop, SpecVisited *)
(* applies the two visited-list appends to the lists a search can hold,    *)
(* SpecTerm runs searches step by step under fairness, and SpecDelete      *)
(* calls hnswdelete with any heap tid.                                     *)
(***************************************************************************)
EXTENDS Integers, Sequences, FiniteSets, TLC

(***************************************************************************)
(* Program constants                                                       *)
(***************************************************************************)
HNSW_MAX_LEVEL == 16
HNSW_MIN_M == 2
HNSW_MAX_M == 128
HNSW_MIN_EF_CONSTRUCTION == 4
HNSW_MIN_EF_SEARCH == 4
HNSW_DEFAULT_K == 10
HNSW_DEFAULT_EF_SEARCH == 64
HNSW_MAX_VISITED_CAPACITY == 1048576
HNSW_MAX_EF_SEARCH == 100000
HNSW_INSERT_MAX_ITERATIONS == 10
\* (BlockNumber) 0xFFFFFFFF; the model's integers are 32-bit signed, so the
\* sentinel is the largest of them: like the original it is above every block.
InvalidBlockNumber == 2147483647
\* float.h FLT_MAX, the "invalid distance" of the pruning code; a value above
\* every distance of the model.
FLT_MAX == 2147483646
\* the page size: what a page header's pd_special reads as
BLCKSZ == 8192
\* sizeof(HnswNodeData): heapPtr (6 bytes, padded to 8), level (4), dim (2),
\* neighborCount[HNSW_MAX_LEVEL] (32), padded to a multiple of 4
SizeofHnswNodeData == 48
\* sizeof(float4) and sizeof(BlockNumber)
SizeofFloat4 == 4
SizeofBlockNumber == 4
\* the header of a page and one line pointer: what PageInit and PageGetFreeSpace
\* take from the page
SizeOfPageHeaderData == 24
SizeofItemIdData == 4

(***************************************************************************)
(* Bounds of the model                                                     *)
(***************************************************************************)
\* node pages an index may grow to
MaxPages == 4
\* levels drawn by hnswGetRandomLevel are 0 .. MaxDrawnLevel
MaxDrawnLevel == 1
\* the first coordinate of a vector is in 0 .. MaxCoord, the others are 0
MaxCoord == 1
\* vectors have one coordinate; those of SpecDim have 1 .. MaxDim, and one
\* vector of SpecDim is as long as a page
MaxDim == 2
\* the dimensions of SpecSize are the powers of two up to 2^MaxDimBits, and 32767
MaxDimBits == 13
\* heap tuples a build scans (SpecBuild)
MaxBuildTuples == 3
\* inserts of a run (SpecRuns)
MaxRunInserts == 6
\* a corrupt neighbour count is 2m + 1 or 2m + MaxExcess (SpecCorrupt)
MaxExcess == 5
\* doublings of a visited list's capacity (SpecVisited)
MaxDoublings == 12
\* node pages the index may grow to while it is scanned (SpecScan)
MaxScanPages == 3
\* the settings neurondb_hnsw_k and neurondb_hnsw_ef_search are 0 (not set) or
\* 1 .. MaxGucK, 1 .. MaxGucEf
MaxGucK == 2
MaxGucEf == 1
\* backends that run handlers at the same time (SpecLock)
NThreads == 2
\* node pages the index may grow to while backends interleave (SpecLock)
MaxLockPages == 2

Levels == 0 .. MaxDrawnLevel
Coords == 0 .. MaxCoord
Layers == 0 .. MaxDrawnLevel
Threads == 1 .. NThreads

(***************************************************************************)
(* State                                                                   *)
(***************************************************************************)
VARIABLES
    pages,      \* pages[b] is block b >= 1 of the index relation (block 0 is the meta page)
    meta,       \* HnswMetaPageData
    thr,        \* SpecLock: per backend, the handler it runs and the events still to issue
    locks,      \* SpecLock: per backend, the content locks it holds, in the order taken
    scan,       \* SpecScan: an index scan (HnswScanOpaqueData) and what hnswgettuple last returned
    called      \* the last call of a function that leaves the index alone, with what it returned

vars == <<pages, meta, thr, locks, scan, called>>

(***************************************************************************)
(* Pages and nodes                                                         *)
(***************************************************************************)
MAXALIGN(len) == ((len + 7) \div 8) * 8

\* The slots of BlockNumber size between the end of a node's neighbour tables
\* and the end of its item: the item has MAXALIGN(size) bytes, so a node with
\* an odd dim has one.  It is where the table of layer level + 1 begins.
PadSlots(dim, level, m) ==
    LET size == SizeofHnswNodeData + dim * SizeofFloat4
                    + (level + 1) * m * 2 * SizeofBlockNumber
    IN  (MAXALIGN(size) - size) \div SizeofBlockNumber

\* a padding slot that nothing has written since the node was allocated
Unwritten == -1

\* The node with its tables cleared to zero bytes instead of 0xFF bytes: every
\* slot names block 0
NewNodeMut(heapPtr, level, vector, m) ==
    [ state         |-> "normal",
      maxoff        |-> 0,
      heapPtr       |-> heapPtr,
      level         |-> level,
      vector        |-> vector,
      neighborCount |-> [l \in Layers |-> 0],
      neighbors     |-> [l \in 0 .. level |-> [i \in 1 .. 2 * m |-> 0]],
      pad           |-> [i \in 1 .. PadSlots(Len(vector), level, m) |-> Unwritten] ]

\* HnswNodeData as written by hnswInsertNode: neighborCount has a slot for
\* every layer, the neighbour table only for layers 0 .. level; pad is the
\* padding at the end of the item, which hnswInsertNode does not set.
NewNode(heapPtr, level, vector, m) ==
    [ state         |-> "normal",
      maxoff        |-> 0,
      heapPtr       |-> heapPtr,
      level         |-> level,
      vector        |-> vector,
      neighborCount |-> [l \in Layers |-> 0],
      neighbors     |-> [l \in 0 .. level |-> [i \in 1 .. 2 * m |-> InvalidBlockNumber]],
      pad           |-> [i \in 1 .. PadSlots(Len(vector), level, m) |-> Unwritten] ]

RelationGetNumberOfBlocks(P) == Len(P) + 1

\* PageIsNew || PageIsEmpty: no line pointer on the page.  The meta page holds
\* no item; a dead item keeps its line pointer, so a dead node's page is not empty.
PageIsEmpty(P, b) == b = 0 \/ P[b].state = "empty"

ItemIdIsDead(P, b) == P[b].state = "dead"

\* What PageGetItem(page, PageGetItemId(page, FirstOffsetNumber)) yields when the
\* line pointer has no storage (ItemIdSetDead zeroes lp_off and lp_len): the page
\* header read as an HnswNodeData.  heapPtr is pd_lsn (never set: the access
\* method writes no WAL), level is pd_checksum and pd_flags (deadLevel: 0 without
\* data checksums, any 16-bit value with them), neighborCount[0..2] are pd_upper,
\* pd_special and pd_pagesize_version, and vector and neighbour table lie in the
\* zeroed free space, so every neighbour slot reads as block 0.
HeaderAsNode(E, m) ==
    [ state         |-> "dead",
      maxoff        |-> 1,
      heapPtr       |-> 0,
      level         |-> E.deadLevel,
      vector        |-> [i \in 1 .. MaxDim |-> 0],
      neighborCount |-> [l \in Layers |-> IF l <= 2 THEN BLCKSZ ELSE 0],
      neighbors     |-> [l \in Layers |-> [i \in 1 .. 2 * m |-> 0]],
      pad           |-> <<>> ]

\* ItemIdSetDead(itemId): the line pointer stays, without storage (lp_off and
\* lp_len are zeroed), so nothing reads the node's bytes again.
DeadPage ==
    [ state         |-> "dead",
      maxoff        |-> 1,
      heapPtr       |-> 0,
      level         |-> 0,
      vector        |-> <<0>>,
      neighborCount |-> [l \in Layers |-> 0],
      neighbors     |-> [l \in {0} |-> <<>>],
      pad           |-> <<>> ]

\* PageInit(page, BufferGetPageSize(buf), 0): a page without line pointers
EmptyPage == [DeadPage EXCEPT !.state = "empty", !.maxoff = 0]

\* PageGetMaxOffsetNumber(page): the number of line pointers on the page
PageGetMaxOffsetNumber(P, b) == P[b].maxoff

\* The item added without a look at the line pointers the page has
PageAddItemMut(page, item) == [item EXCEPT !.maxoff = page.maxoff + 2]

\* PageAddItem(page, item, size, InvalidOffsetNumber, false, false): the item
\* goes behind the line pointers the page has
PageAddItem(page, item) == [item EXCEPT !.maxoff = page.maxoff + 1]

\* The item read where it lay before its line pointer was marked dead
PageGetItemMut(P, b, E, m) ==
    IF P[b].state = "normal" THEN P[b] ELSE [HeaderAsNode(E, m) EXCEPT !.heapPtr = b]

PageGetItem(P, b, E, m) ==
    IF P[b].state = "normal" THEN P[b] ELSE HeaderAsNode(E, m)

\* HnswGetNeighborsSafe(node, level, m): base + level * m * 2 slots.  For a layer
\* above the node's level the address is at the end of the tables: the first
\* slots of layer level + 1 are the padding of the item, the others lie past
\* the end of the item (the item is the last thing on its page) and read as
\* whatever lies there (E.oob), as does padding that was never written.
HnswGetNeighborsSafe(node, level, E, m) ==
    IF level \in DOMAIN node.neighbors
    THEN node.neighbors[level]
    ELSE [i \in 1 .. 2 * m |->
             IF level = node.level + 1 /\ i <= Len(node.pad) /\ node.pad[i] # Unwritten
             THEN node.pad[i]
             ELSE E.oob]

HnswGetVector(node) == node.vector

\* The validation that takes a count above 2m for no neighbours at all
hnswValidateNeighborCountMut(neighborCount, m) ==
    IF neighborCount < 0 THEN 0
    ELSE IF neighborCount > m * 2 THEN 0
    ELSE neighborCount

hnswValidateNeighborCount(neighborCount, m) ==
    IF neighborCount < 0 THEN 0
    ELSE IF neighborCount > m * 2 THEN m * 2
    ELSE neighborCount

hnswValidateLevelSafe(level) == ~(level < 0 \/ level >= HNSW_MAX_LEVEL)

\* hnswComputeNodeSizeSafe(dim, level, m, &overflow).  The sizes are size_t (64
\* bits): for an int dim >= 0 and a level in 0 .. 15 no product or sum wraps,
\* so each of the wrap tests is written as the code has it and is false.
hnswComputeNodeSizeSafe(dim, level, m) ==
    LET vectorSize == dim * SizeofFloat4
        neighborSize == (level + 1) * m * 2 * SizeofBlockNumber
        totalSize == SizeofHnswNodeData + vectorSize + neighborSize
        result == MAXALIGN(totalSize)
    IN  IF \/ m < HNSW_MIN_M \/ m > HNSW_MAX_M
           \/ vectorSize \div SizeofFloat4 # dim
           \/ neighborSize \div SizeofBlockNumber # (level + 1) * m * 2
           \/ totalSize < SizeofHnswNodeData \/ totalSize < vectorSize
           \/ totalSize < neighborSize
           \/ result < totalSize
        THEN [overflow |-> TRUE, result |-> 0]
        ELSE [overflow |-> FALSE, result |-> result]

\* PageGetFreeSpace(page) of a page that PageInit has just set up
PageGetFreeSpace == BLCKSZ - SizeOfPageHeaderData - SizeofItemIdData

hnswValidateBlockNumber(blkno, P) ==
    /\ blkno # InvalidBlockNumber
    /\ blkno < RelationGetNumberOfBlocks(P)

Square(d) == d * d

\* for (i = 0; i < dim; i++) { d = vec1[i] - vec2[i]; sum += d * d; }
RECURSIVE SumSquares(_, _, _)
SumSquares(vec1, vec2, dim) ==
    IF dim = 0 THEN 0
    ELSE SumSquares(vec1, vec2, dim - 1) + Square(vec1[dim] - vec2[dim])

\* sqrt(sum), exact when sum is a square: it is one for the vectors of the
\* model, which differ in their first coordinate only
Sqrt(sum) == CHOOSE r \in 0 .. sum : Square(r) <= sum /\ sum < Square(r + 1)

\* hnswComputeDistance(vec1, vec2, dim, 1): the L2 distance over the first dim
\* floats of both vectors, whatever their own lengths are
hnswComputeDistance(vec1, vec2, dim) == Sqrt(SumSquares(vec1, vec2, dim))

(***************************************************************************)
(* Buffer-manager events                                                   *)
(***************************************************************************)
Acq(b, mode) == [op |-> "acq", blk |-> b, arg |-> mode]    \* ReadBuffer + LockBuffer
Rel(b)       == [op |-> "rel", blk |-> b, arg |-> "-"]     \* UnlockReleaseBuffer
Ext(b)       == [op |-> "ext", blk |-> b, arg |-> "-"]     \* ReadBuffer(P_NEW)
Wr(b, node)  == [op |-> "wr",  blk |-> b, arg |-> node]    \* a change to a locked node page
WrMeta(mp)   == [op |-> "meta", blk |-> 0, arg |-> mp]     \* a change to the meta page
\* CHECK_FOR_INTERRUPTS(); arg is what the PG_CATCH blocks on the way out do
Chk(unw)     == [op |-> "chk", blk |-> 0, arg |-> unw]

\* The events of tr, with the clean-up of an enclosing PG_CATCH block (or of the
\* caller's) appended to what each interrupt check unwinds through.
RECURSIVE WithCatch(_, _)
WithCatch(tr, cleanup) ==
    IF tr = <<>> THEN <<>>
    ELSE LET e == Head(tr) IN
         <<IF e.op = "chk" THEN Chk(e.arg \o cleanup) ELSE e>>
             \o WithCatch(Tail(tr), cleanup)

(***************************************************************************)
(* hnswSearch (hnsw_am.c)                                                  *)
(***************************************************************************)
\* lines 1687-1740: the neighbours of the current node at one upper layer
RECURSIVE SearchGreedyNeighbors(_, _, _, _, _, _, _)
SearchGreedyNeighbors(P, E, m, query, nbrs, i, acc) ==
    IF i > Len(nbrs) THEN acc
    ELSE LET nb == nbrs[i] IN
         IF nb = InvalidBlockNumber \/ ~hnswValidateBlockNumber(nb, P)
         THEN SearchGreedyNeighbors(P, E, m, query, nbrs, i + 1, acc)
         ELSE LET tr2 == acc.tr \o <<Acq(nb, "S"), Rel(nb)>> IN
              IF PageIsEmpty(P, nb)
              THEN SearchGreedyNeighbors(P, E, m, query, nbrs, i + 1,
                                         [acc EXCEPT !.tr = tr2])
              ELSE LET neighborDist ==
                           hnswComputeDistance(query, HnswGetVector(PageGetItem(P, nb, E, m)), Len(query))
                   IN  SearchGreedyNeighbors(P, E, m, query, nbrs, i + 1,
                           IF neighborDist < acc.currentDist
                           THEN [current     |-> nb,
                                 currentDist |-> neighborDist,
                                 foundBetter |-> TRUE,
                                 tr          |-> tr2]
                           ELSE [acc EXCEPT !.tr = tr2])

\* lines 1636-1743: the do-while loop of one upper layer
RECURSIVE SearchGreedyLevel(_, _, _, _, _, _)
SearchGreedyLevel(P, E, m, query, level, st) ==
    IF ~hnswValidateBlockNumber(st.current, P) THEN st
    ELSE LET cur == st.current
             tr1 == st.tr \o <<Acq(cur, "S")>>
             out == [current |-> cur, tr |-> tr1 \o <<Rel(cur)>>, nodeBuf |-> cur]
         IN
         IF PageIsEmpty(P, cur) THEN out
         ELSE LET node == PageGetItem(P, cur, E, m) IN
              IF ~hnswValidateLevelSafe(node.level) THEN out
              ELSE LET currentDist == hnswComputeDistance(query, HnswGetVector(node), Len(query))
                       neighborCount ==
                           hnswValidateNeighborCount(node.neighborCount[level], m)
                       nbrs == IF node.level >= level
                               THEN SubSeq(HnswGetNeighborsSafe(node, level, E, m),
                                           1, neighborCount)
                               ELSE <<>>
                       Again(r) ==
                           IF r.foundBetter
                           THEN SearchGreedyLevel(P, E, m, query, level,
                                    [current |-> r.current,
                                     tr      |-> r.tr \o <<Rel(cur)>>,
                                     nodeBuf |-> cur])
                           ELSE [current |-> r.current,
                                 tr      |-> r.tr \o <<Rel(cur)>>,
                                 nodeBuf |-> cur]
                   IN  Again(SearchGreedyNeighbors(P, E, m, query, nbrs, 1,
                                [current     |-> cur,
                                 currentDist |-> currentDist,
                                 foundBetter |-> FALSE,
                                 tr          |-> tr1]))

\* lines 1632-1744: for (level = currentLevel; level > 0; level--)
RECURSIVE SearchGreedy(_, _, _, _, _, _)
SearchGreedy(P, E, m, query, level, st) ==
    IF level <= 0 THEN st
    ELSE SearchGreedy(P, E, m, query, level - 1,
                      SearchGreedyLevel(P, E, m, query, level, st))

\* lines 1950-1959: the index of the first worst candidate
WorstIdx(cand) ==
    CHOOSE w \in 1 .. Len(cand) :
        /\ \A l \in 1 .. Len(cand) : cand[l].dist <= cand[w].dist
        /\ \A l \in 1 .. w - 1 : cand[l].dist < cand[w].dist

\* lines 1867-1967: the layer-0 neighbours of one candidate
RECURSIVE SearchLayer0Neighbors(_, _, _, _, _, _, _, _)
SearchLayer0Neighbors(P, E, m, query, efSearch, nbrs, j, acc) ==
    IF j > Len(nbrs) THEN acc
    ELSE LET nb == nbrs[j] IN
         IF \/ nb = InvalidBlockNumber
            \/ ~hnswValidateBlockNumber(nb, P)
            \/ nb \in acc.visitedSet
         THEN SearchLayer0Neighbors(P, E, m, query, efSearch, nbrs, j + 1, acc)
         ELSE LET tr2 == acc.tr \o <<Acq(nb, "S"), Rel(nb)>> IN
              IF PageIsEmpty(P, nb)
              THEN SearchLayer0Neighbors(P, E, m, query, efSearch, nbrs, j + 1,
                                         [acc EXCEPT !.tr = tr2])
              ELSE LET neighborDist ==
                           hnswComputeDistance(query, HnswGetVector(PageGetItem(P, nb, E, m)), Len(query))
                       c == [blk |-> nb, dist |-> neighborDist]
                       cand2 ==
                           IF Len(acc.cand) < efSearch
                           THEN Append(acc.cand, c)
                           ELSE IF neighborDist < acc.cand[WorstIdx(acc.cand)].dist
                                THEN [acc.cand EXCEPT ![WorstIdx(acc.cand)] = c]
                                ELSE acc.cand
                   IN  SearchLayer0Neighbors(P, E, m, query, efSearch, nbrs, j + 1,
                           [acc EXCEPT !.tr = tr2,
                                       !.cand = cand2,
                                       !.visitedSet = @ \cup {nb},
                                       !.visitedCount = @ + 1])

\* lines 1827-1969: for (i = 0; i < candidateCount && candidateCount < efSearch; i++)
RECURSIVE SearchLayer0(_, _, _, _, _, _, _)
SearchLayer0(P, E, m, query, efSearch, i, acc0) ==
    IF ~(i <= Len(acc0.cand) /\ Len(acc0.cand) < efSearch)
    THEN \* for the record: the candidates that the loop leaves without a visit
         [acc0 EXCEPT !.left = SubSeq(acc0.cand, i, Len(acc0.cand))]
    ELSE LET candidate == acc0.cand[i].blk
             \* for the record: candidates[i] as the loop takes it, and those
             \* after it in the array
             acc == [acc0 EXCEPT !.order =
                        Append(@, [blk     |-> candidate,
                                   dist    |-> acc0.cand[i].dist,
                                   waiting |-> SubSeq(acc0.cand, i + 1, Len(acc0.cand))])]
         IN
         IF ~hnswValidateBlockNumber(candidate, P)
         THEN SearchLayer0(P, E, m, query, efSearch, i + 1, acc)
         ELSE LET tr1 == acc.tr \o <<Acq(candidate, "S")>>
                  skip == [acc EXCEPT !.tr = tr1 \o <<Rel(candidate)>>,
                                      !.nodeBuf = candidate]
              IN
              IF PageIsEmpty(P, candidate)
              THEN SearchLayer0(P, E, m, query, efSearch, i + 1, skip)
              ELSE LET node == PageGetItem(P, candidate, E, m) IN
                   IF ~hnswValidateLevelSafe(node.level)
                   THEN SearchLayer0(P, E, m, query, efSearch, i + 1, skip)
                   ELSE LET neighborCount ==
                                hnswValidateNeighborCount(node.neighborCount[0], m)
                            nbrs == SubSeq(HnswGetNeighborsSafe(node, 0, E, m),
                                           1, neighborCount)
                            r == SearchLayer0Neighbors(P, E, m, query, efSearch, nbrs, 1,
                                     [acc EXCEPT !.tr = tr1, !.nodeBuf = candidate])
                        IN  SearchLayer0(P, E, m, query, efSearch, i + 1,
                                [r EXCEPT !.tr = @ \o <<Rel(candidate)>>])

\* lines 1984-1991 and 2398-2405: the index of the first minimum of s[i..]
MinIdx(s, i) ==
    CHOOSE j \in i .. Len(s) :
        /\ \A l \in i .. Len(s) : s[j].dist <= s[l].dist
        /\ \A l \in i .. j - 1 : s[l].dist > s[j].dist

\* lines 1978-1998 and 2393-2418: selection sort of the first k places
RECURSIVE SelectK(_, _, _)
SelectK(s, i, k) ==
    IF i > k \/ i > Len(s) THEN s
    ELSE LET mi == MinIdx(s, i) IN
         SelectK([s EXCEPT ![i] = s[mi], ![mi] = s[i]], i + 1, k)

Min(a, b) == IF a < b THEN a ELSE b

\* cand: the candidates the search collected, for the record; order: the
\* candidates in the order the layer-0 loop took them; left: those it left
NoResults ==
    [results |-> <<>>, distances |-> <<>>, tr |-> <<>>, cand |-> <<>>,
     order |-> <<>>, left |-> <<>>]

\* lines 1970-2023: the k nearest of the candidates b.cand, nearest first
SearchTopK(b, k) ==
    LET sorted == SelectK(b.cand, 1, k)
        topKCount == Min(k, Len(b.cand))
    IN  [results   |-> [i \in 1 .. topKCount |-> sorted[i].blk],
         distances |-> [i \in 1 .. topKCount |-> sorted[i].dist],
         \* lines 1974, 1980: CHECK_FOR_INTERRUPTS; the PG_CATCH block of lines
         \* 2025-2032 unlocks nodeBuf, which still names the last buffer read
         tr        |-> b.tr \o <<Chk(<<Rel(b.nodeBuf)>>)>>,
         cand      |-> b.cand,
         order     |-> b.order,
         left      |-> b.left]

\* lines 1746-2023: from the node a.current that the descent through the upper
\* layers ended at
SearchFrom(P, mp, E, query, efSearch, k, a) ==
    LET current == a.current IN
    IF ~hnswValidateBlockNumber(current, P) THEN [NoResults EXCEPT !.tr = a.tr]
    ELSE
    LET tr1 == a.tr \o <<Acq(current, "S")>> IN
    IF PageIsEmpty(P, current) THEN [NoResults EXCEPT !.tr = tr1 \o <<Rel(current)>>]
    ELSE
    LET node == PageGetItem(P, current, E, mp.m) IN
    IF ~hnswValidateLevelSafe(node.level)
    THEN [NoResults EXCEPT !.tr = tr1 \o <<Rel(current)>>]
    ELSE SearchTopK(
             SearchLayer0(P, E, mp.m, query, efSearch, 1,
                 [cand         |-> <<[blk  |-> current,
                                      dist |-> hnswComputeDistance(query, HnswGetVector(node), Len(query))]>>,
                  visitedSet   |-> {current},
                  visitedCount |-> 1,
                  nodeBuf      |-> current,
                  order        |-> <<>>,
                  left         |-> <<>>,
                  tr           |-> tr1 \o <<Rel(current)>>]),
             k)

\* hnswSearch(index, metaPage, query, dim, strategy = L2, efSearch, k, ...)
hnswSearch(P, mp, E, query, efSearch, k) ==
    IF mp.entryPoint = InvalidBlockNumber THEN NoResults
    ELSE SearchFrom(P, mp, E, query, efSearch, k,
             SearchGreedy(P, E, mp.m, query,
                          IF mp.entryLevel < 0 \/ mp.entryLevel >= HNSW_MAX_LEVEL
                          THEN 0 ELSE mp.entryLevel,
                          [current |-> mp.entryPoint, tr |-> <<>>, nodeBuf |-> 0]))

(***************************************************************************)
(* hnswInsertNode (hnsw_am.c)                                              *)
(***************************************************************************)
\* lines 2217-2274: the neighbours of the entry node, during the greedy descent
RECURSIVE InsertGreedyNeighbors(_, _, _, _, _, _, _)
InsertGreedyNeighbors(P, E, m, vector, nbrs, i, acc) ==
    IF i > Len(nbrs) THEN acc
    ELSE LET nb == nbrs[i]
             tr0 == acc.tr \o <<Chk(<<>>)>>
         IN
         IF nb = InvalidBlockNumber \/ nb >= RelationGetNumberOfBlocks(P)
         THEN InsertGreedyNeighbors(P, E, m, vector, nbrs, i + 1, [acc EXCEPT !.tr = tr0])
         ELSE LET tr2 == tr0 \o <<Acq(nb, "S"), Rel(nb)>> IN
              IF PageIsEmpty(P, nb)
              THEN InsertGreedyNeighbors(P, E, m, vector, nbrs, i + 1,
                                         [acc EXCEPT !.tr = tr2])
              ELSE LET neighborDist ==
                           hnswComputeDistance(vector, HnswGetVector(PageGetItem(P, nb, E, m)), Len(vector))
                   IN  InsertGreedyNeighbors(P, E, m, vector, nbrs, i + 1,
                           IF neighborDist < acc.bestDist
                           THEN [bestEntry |-> nb,
                                 bestDist  |-> neighborDist,
                                 improved  |-> TRUE,
                                 tr        |-> tr2]
                           ELSE [acc EXCEPT !.tr = tr2])

\* lines 2163-2279 (Step 3): while (improved && iterations < maxIterations).
\* The entry buffer stays locked while each neighbour is visited; nothing uses
\* bestEntry afterwards, so the events are all the loop leaves behind.
RECURSIVE InsertGreedy(_, _, _, _, _, _, _, _)
InsertGreedy(P, E, m, vector, level, bestEntry, iterations, tr) ==
    IF iterations >= HNSW_INSERT_MAX_ITERATIONS THEN tr
    ELSE IF ~hnswValidateBlockNumber(bestEntry, P) THEN tr
    ELSE LET tr1 == tr \o <<Acq(bestEntry, "S")>> IN
         IF PageIsEmpty(P, bestEntry) THEN tr1 \o <<Rel(bestEntry)>>
         ELSE LET entryNode == PageGetItem(P, bestEntry, E, m) IN
              IF ~hnswValidateLevelSafe(entryNode.level) THEN tr1 \o <<Rel(bestEntry)>>
              ELSE IF entryNode.level >= level
              THEN LET entryNeighborCount ==
                           hnswValidateNeighborCount(entryNode.neighborCount[level], m)
                       Again(r) ==
                           IF r.improved
                           THEN InsertGreedy(P, E, m, vector, level, r.bestEntry,
                                             iterations + 1, r.tr \o <<Rel(bestEntry)>>)
                           ELSE r.tr \o <<Rel(bestEntry)>>
                   IN  Again(InsertGreedyNeighbors(P, E, m, vector,
                                SubSeq(HnswGetNeighborsSafe(entryNode, level, E, m),
                                       1, entryNeighborCount),
                                1,
                                [bestEntry |-> bestEntry,
                                 bestDist  |-> hnswComputeDistance(vector,
                                                                   HnswGetVector(entryNode), Len(vector)),
                                 improved  |-> FALSE,
                                 tr        |-> tr1]))
              ELSE tr1 \o <<Rel(bestEntry)>>

\* A store through neighborNode into a locked page.  The neighbour table of a
\* layer above the node's level begins in the padding of the item and goes on
\* past the end of the item and of the page: the page keeps the neighborCount
\* and the slots that lie in the padding.  A page whose item is dead has no
\* storage for the node at all: the store lands in the page header and the free
\* space and the page stays a dead page.
StoreNeighbors(node, level, tbl, count) ==
    IF node.state # "normal" THEN node
    ELSE [node EXCEPT !.neighborCount[level] = count,
                      !.neighbors = IF level \in DOMAIN @
                                    THEN [@ EXCEPT ![level] = tbl]
                                    ELSE @,
                      !.pad = IF level = node.level + 1
                              THEN [i \in 1 .. Len(@) |-> tbl[i]]
                              ELSE @]

\* lines 2487-2495: the first free slot among the first count, else count
InsertPos(tbl, count) ==
    IF \E j \in 1 .. count : tbl[j] = InvalidBlockNumber
    THEN CHOOSE j \in 1 .. count :
             /\ tbl[j] = InvalidBlockNumber
             /\ \A l \in 1 .. j - 1 : tbl[l] # InvalidBlockNumber
    ELSE count + 1

\* lines 2525-2576: the distances of the neighbour's neighbours (pruning).
\* acc = [d, tr]; d[j] is left as it was (0 from the allocation) after a break.
RECURSIVE PruneDistances(_, _, _, _, _, _, _, _, _)
PruneDistances(P, E, m, blkno, selDist, neighborVector, tbl, j, acc) ==
    IF j > Len(acc.d) \/ tbl[j] = InvalidBlockNumber THEN acc
    ELSE IF tbl[j] = blkno
    THEN PruneDistances(P, E, m, blkno, selDist, neighborVector, tbl, j + 1,
                        [acc EXCEPT !.d[j] = selDist])
    ELSE IF ~hnswValidateBlockNumber(tbl[j], P)
    THEN PruneDistances(P, E, m, blkno, selDist, neighborVector, tbl, j + 1,
                        [acc EXCEPT !.d[j] = FLT_MAX])
    ELSE LET tr2 == acc.tr \o <<Acq(tbl[j], "S"), Rel(tbl[j])>> IN
         IF PageIsEmpty(P, tbl[j])
         THEN PruneDistances(P, E, m, blkno, selDist, neighborVector, tbl, j + 1,
                             [d |-> [acc.d EXCEPT ![j] = FLT_MAX], tr |-> tr2])
         ELSE PruneDistances(P, E, m, blkno, selDist, neighborVector, tbl, j + 1,
                  [d  |-> [acc.d EXCEPT ![j] =
                              hnswComputeDistance(neighborVector,
                                  HnswGetVector(PageGetItem(P, tbl[j], E, m)), Len(P[blkno].vector))],
                   tr |-> tr2])

\* lines 2577-2594: exchange sort of (distance, index) pairs
RECURSIVE PruneSortInner(_, _, _)
PruneSortInner(s, j, k) ==
    IF k > Len(s) THEN s
    ELSE PruneSortInner(IF s[k].dist < s[j].dist
                        THEN [s EXCEPT ![j] = s[k], ![k] = s[j]]
                        ELSE s,
                        j, k + 1)

RECURSIVE PruneSort(_, _)
PruneSort(s, j) ==
    IF j >= Len(s) THEN s ELSE PruneSort(PruneSortInner(s, j, j + 1), j + 1)

\* lines 2596-2597: neighborNeighbors[j] = neighborNeighbors[neighborIndices[j]],
\* in place, for j = 0 .. m*2-1
RECURSIVE PrunePermute(_, _, _)
PrunePermute(tbl, idx, j) ==
    IF j > Len(tbl) THEN tbl
    ELSE PrunePermute([tbl EXCEPT ![j] = IF j <= Len(idx) THEN tbl[idx[j]] ELSE tbl[j]],
                      idx, j + 1)

\* lines 2447-2608: one selected neighbour: the forward link in the new node,
\* then the back link (and the pruning) in the neighbour
LinkNeighbor(P, E, m, blkno, currentLevel, idx, sel, selDist) ==
    LET newNode == [P[blkno] EXCEPT !.neighbors[currentLevel][idx] = sel,
                                    !.neighborCount[currentLevel] = idx]
        P1 == [P EXCEPT ![blkno] = newNode]
        tr1 == <<Wr(blkno, newNode), Acq(sel, "X")>>
        neighborNode == PageGetItem(P1, sel, E, m)
    IN
    IF ~hnswValidateLevelSafe(neighborNode.level)
    THEN [P |-> P1, tr |-> tr1 \o <<Rel(sel)>>]
    ELSE
    LET tbl == HnswGetNeighborsSafe(neighborNode, currentLevel, E, m)
        neighborNeighborCount ==
            hnswValidateNeighborCount(neighborNode.neighborCount[currentLevel], m)
        insertPos == InsertPos(tbl, neighborNeighborCount)
        linked == insertPos <= m * 2
        tbl2 == IF linked THEN [tbl EXCEPT ![insertPos] = blkno] ELSE tbl
        count2 == IF linked /\ insertPos > neighborNeighborCount
                  THEN insertPos
                  ELSE neighborNode.neighborCount[currentLevel]
        needsPruning == count2 > m * 2
        pruneCount == hnswValidateNeighborCount(count2, m)
        pd == PruneDistances(P1, E, m, blkno, selDist, HnswGetVector(neighborNode), tbl2, 1,
                             [d |-> [j \in 1 .. pruneCount |-> 0], tr |-> <<>>])
        order == PruneSort([j \in 1 .. pruneCount |-> [dist |-> pd.d[j], idx |-> j]], 1)
        tbl3 == IF needsPruning
                THEN PrunePermute(tbl2, [j \in 1 .. pruneCount |-> order[j].idx], 1)
                ELSE tbl2
        count3 == IF needsPruning THEN m * 2 ELSE count2
        stored == StoreNeighbors(P1[sel], currentLevel, tbl3, count3)
    IN  [P  |-> [P1 EXCEPT ![sel] = stored],
         tr |-> tr1 \o (IF needsPruning THEN pd.tr ELSE <<>>)
                    \o (IF P1[sel].state = "normal" THEN <<Wr(sel, stored)>> ELSE <<>>)
                    \o <<Rel(sel)>>]

\* lines 2447-2608: for (idx = 0; idx < selectedCount; idx++)
RECURSIVE LinkSelected(_, _, _, _, _, _, _, _)
LinkSelected(P, E, m, blkno, currentLevel, selected, idx, tr) ==
    IF idx > Len(selected) THEN [P |-> P, tr |-> tr]
    ELSE LET Rest(r) ==
                 LinkSelected(r.P, E, m, blkno, currentLevel, selected, idx + 1, tr \o r.tr)
         IN  Rest(LinkNeighbor(P, E, m, blkno, currentLevel, idx,
                               selected[idx].blk, selected[idx].dist))

\* lines 2359-2632 (Step 5a): for (currentLevel = maxLevel; currentLevel >= 0; ...).
\* Each round searches, then reads and locks the new node's buffer again; the
\* buffer is unlocked once, after the loop.
RECURSIVE LinkLevels(_, _, _, _, _, _, _)
RECURSIVE LinkLevel(_, _, _, _, _, _, _, _)
LinkLevels(P, mp, E, vector, blkno, currentLevel, tr) ==
    IF currentLevel < 0 THEN [P |-> P, tr |-> tr]
    ELSE LinkLevel(P, mp, E, vector, blkno, currentLevel, tr,
                   hnswSearch(P, mp, E, vector, mp.efConstruction, mp.efConstruction))

\* lines 2381-2632: one round of the loop, with the candidates s that hnswSearch
\* returned for it
LinkLevel(P, mp, E, vector, blkno, currentLevel, tr, s) ==
    LET candidates == [i \in 1 .. Len(s.results) |->
                          [blk |-> s.results[i], dist |-> s.distances[i]]]
        selectedCount == Min(mp.m, Len(s.results))
        Rest(r) == LinkLevels(r.P, mp, E, vector, blkno, currentLevel - 1, r.tr)
    IN  Rest(LinkSelected(P, E, mp.m, blkno, currentLevel,
                          SubSeq(SelectK(candidates, 1, selectedCount), 1, selectedCount),
                          1, tr \o s.tr \o <<Acq(blkno, "X")>>))

\* Step 6 with the count kept only when the entry point moves: a variant that
\* the count of inserts must tell apart from the code's
InsertUpdateMetaMut(mp, blkno, level) ==
    IF mp.entryPoint = InvalidBlockNumber \/ level > mp.entryLevel
    THEN [mp EXCEPT !.entryPoint = blkno, !.entryLevel = level,
                    !.insertedVectors = @ + 1,
                    !.maxLevel = IF level > @ THEN level ELSE @]
    ELSE mp

\* Step 6 with the entry point moved also by a node of the entry level: a
\* variant that the rule of the entry point must tell apart from the code's
InsertUpdateMetaGeMut(mp, blkno, level) ==
    LET mp1 == IF mp.entryPoint = InvalidBlockNumber \/ level >= mp.entryLevel
               THEN [mp EXCEPT !.entryPoint = blkno, !.entryLevel = level]
               ELSE mp
    IN  [mp1 EXCEPT !.insertedVectors = @ + 1,
                    !.maxLevel = IF level > @ THEN level ELSE @]

\* lines 2642-2660 (Step 6): entry point and counters of the meta page
InsertUpdateMeta(mp, blkno, level) ==
    LET mp1 == IF mp.entryPoint = InvalidBlockNumber \/ level > mp.entryLevel
               THEN [mp EXCEPT !.entryPoint = blkno, !.entryLevel = level]
               ELSE mp
    IN  [mp1 EXCEPT !.insertedVectors = @ + 1,
                    !.maxLevel = IF level > @ THEN level ELSE @]

\* hnswInsertNode(index, metaPage, vector, dim, heapPtr), with the level that
\* hnswGetRandomLevel drew
hnswInsertNode(P, mp, E, vector, heapPtr, level) ==
    LET node == PageAddItem(EmptyPage, NewNode(heapPtr, level, vector, mp.m))
        blkno == RelationGetNumberOfBlocks(P)
        mp6 == InsertUpdateMeta(mp, blkno, level)
        nodeSize == hnswComputeNodeSizeSafe(Len(vector), level, mp.m)
        \* lines 2297-2301 and the PG_CATCH block of Step 4: the relation has the
        \* new page, set up by PageInit, and the error goes up
        NoSpace(tr3) ==
            [P      |-> Append(P, EmptyPage),
             meta   |-> mp,
             tr     |-> tr3 \o <<Ext(blkno), Acq(blkno, "X"), Rel(blkno)>>,
             raised |-> TRUE]
        \* Step 4, after the events tr3 of Step 3
        Step4(tr3) == tr3 \o <<Ext(blkno), Acq(blkno, "X"), Wr(blkno, node), Rel(blkno)>>
        \* Step 5, after the events tr4 of Steps 3 and 4
        Step5(tr4) ==
            IF mp.entryPoint # InvalidBlockNumber /\ mp.entryLevel >= 0
            THEN LinkLevels(Append(P, node), mp, E, vector, blkno,
                            Min(level, mp.entryLevel), tr4)
            ELSE [P |-> Append(P, node), tr |-> tr4]
        \* lines 2633-2638 and Step 6
        Step6(r5) ==
            [P      |-> r5.P,
             meta   |-> mp6,
             tr     |-> r5.tr
                        \o (IF mp.entryPoint # InvalidBlockNumber /\ mp.entryLevel >= 0
                            THEN <<Rel(blkno)>> ELSE <<>>)
                        \o <<WrMeta(mp6)>>,
             raised |-> FALSE]
        \* Steps 4 to 6, after the events tr3 of Step 3
        Steps(tr3) ==
            IF PageGetFreeSpace < nodeSize.result
            THEN NoSpace(tr3)
            ELSE Step6(Step5(Step4(tr3)))
    IN  \* lines 2121-2128: the error of Step 2, before any page is touched
        IF nodeSize.overflow \/ nodeSize.result = 0
        THEN [P |-> P, meta |-> mp, tr |-> <<>>, raised |-> TRUE]
        ELSE Steps(IF mp.entryPoint # InvalidBlockNumber /\ level > 0
                   THEN InsertGreedy(P, E, mp.m, vector, level, mp.entryPoint, 0, <<>>)
                   ELSE <<>>)

\* hnswinsert(index, values, isnull, ht_ctid, ...): the meta page is locked
\* exclusively around hnswInsertNode; the PG_CATCH block unlocks the meta page.
hnswinsert(P, mp, E, vector, heapPtr, level) ==
    LET Locked(r) ==
            [P      |-> r.P,
             meta   |-> r.meta,
             tr     |-> <<Acq(0, "X")>> \o WithCatch(r.tr, <<Rel(0)>>) \o <<Rel(0)>>,
             raised |-> r.raised]
    IN  Locked(hnswInsertNode(P, mp, E, vector, heapPtr, level))

(***************************************************************************)
(* hnswRemoveNodeFromNeighbor, hnswbulkdelete, hnswdelete (hnsw_am.c)      *)
(***************************************************************************)
\* lines 2814-2826: drop the first occurrence of nodeBlkno among the first
\* count slots, shift the rest left and clear the last of them
ShiftOut(tbl, count, nodeBlkno) ==
    LET i0 == CHOOSE i \in 1 .. count :
                  /\ tbl[i] = nodeBlkno
                  /\ \A l \in 1 .. i - 1 : tbl[l] # nodeBlkno
    IN  [j \in 1 .. Len(tbl) |->
            IF j < i0 THEN tbl[j]
            ELSE IF j < count THEN tbl[j + 1]
            ELSE IF j = count THEN InvalidBlockNumber
            ELSE tbl[j]]

\* The removal with the count taken down once in the shifting loop and once
\* more after it
hnswRemoveNodeFromNeighborMut(P, mp, E, neighborBlkno, nodeBlkno, level) ==
    IF ~hnswValidateBlockNumber(neighborBlkno, P) \/ ~hnswValidateLevelSafe(level)
    THEN [P |-> P, tr |-> <<>>]
    ELSE
    LET tr1 == <<Acq(neighborBlkno, "X")>>
        neighbor == PageGetItem(P, neighborBlkno, E, mp.m)
    IN
    IF PageIsEmpty(P, neighborBlkno) \/ ~hnswValidateLevelSafe(neighbor.level)
    THEN [P |-> P, tr |-> tr1 \o <<Rel(neighborBlkno)>>]
    ELSE
    LET tr2 == tr1 \o <<Acq(0, "S"), Rel(0)>>
        tbl == HnswGetNeighborsSafe(neighbor, level, E, mp.m)
        neighborCount == hnswValidateNeighborCount(neighbor.neighborCount[level], mp.m)
        found == \E i \in 1 .. neighborCount : tbl[i] = nodeBlkno
        stored == StoreNeighbors(P[neighborBlkno], level,
                                 ShiftOut(tbl, neighborCount, nodeBlkno),
                                 neighbor.neighborCount[level] - 2)
    IN
    IF found /\ P[neighborBlkno].state = "normal"
    THEN [P  |-> [P EXCEPT ![neighborBlkno] = stored],
          tr |-> tr2 \o <<Wr(neighborBlkno, stored), Rel(neighborBlkno)>>]
    ELSE [P |-> P, tr |-> tr2 \o <<Rel(neighborBlkno)>>]

\* hnswRemoveNodeFromNeighbor(index, neighborBlkno, nodeBlkno, level).  It reads
\* and share-locks the meta page itself (lines 2800-2805), to learn m.
hnswRemoveNodeFromNeighbor(P, mp, E, neighborBlkno, nodeBlkno, level) ==
    IF ~hnswValidateBlockNumber(neighborBlkno, P) \/ ~hnswValidateLevelSafe(level)
    THEN [P |-> P, tr |-> <<>>]
    ELSE
    LET tr1 == <<Acq(neighborBlkno, "X")>>
        neighbor == PageGetItem(P, neighborBlkno, E, mp.m)
    IN
    IF PageIsEmpty(P, neighborBlkno) \/ ~hnswValidateLevelSafe(neighbor.level)
    THEN [P |-> P, tr |-> tr1 \o <<Rel(neighborBlkno)>>]
    ELSE
    LET tr2 == tr1 \o <<Acq(0, "S"), Rel(0)>>
        tbl == HnswGetNeighborsSafe(neighbor, level, E, mp.m)
        neighborCount == hnswValidateNeighborCount(neighbor.neighborCount[level], mp.m)
        found == \E i \in 1 .. neighborCount : tbl[i] = nodeBlkno
        stored == StoreNeighbors(P[neighborBlkno], level,
                                 ShiftOut(tbl, neighborCount, nodeBlkno),
                                 neighbor.neighborCount[level] - 1)
    IN
    IF found /\ P[neighborBlkno].state = "normal"
    THEN [P  |-> [P EXCEPT ![neighborBlkno] = stored],
          tr |-> tr2 \o <<Wr(neighborBlkno, stored), Rel(neighborBlkno)>>]
    ELSE [P |-> P, tr |-> tr2 \o <<Rel(neighborBlkno)>>]

\* lines 630-640 and 2897-2904: for (i = 0; i < neighborCount; i++); neighbors
\* points into the node's own locked page, so each slot is read as it then is
RECURSIVE RemoveFromLevel(_, _, _, _, _, _, _, _)
RemoveFromLevel(P, mp, E, blkno, level, i, neighborCount, tr) ==
    IF i > neighborCount THEN [P |-> P, tr |-> tr]
    ELSE LET nb == HnswGetNeighborsSafe(PageGetItem(P, blkno, E, mp.m), level, E, mp.m)[i] IN
         IF nb # InvalidBlockNumber /\ hnswValidateBlockNumber(nb, P)
         THEN LET Rest(r) ==
                      RemoveFromLevel(r.P, mp, E, blkno, level, i + 1, neighborCount,
                                      tr \o r.tr)
              IN  Rest(hnswRemoveNodeFromNeighbor(P, mp, E, nb, blkno, level))
         ELSE RemoveFromLevel(P, mp, E, blkno, level, i + 1, neighborCount, tr)

\* lines 622-641 and 2889-2905: for (level = 0; level <= node->level; level++)
RECURSIVE RemoveFromGraph(_, _, _, _, _, _)
RemoveFromGraph(P, mp, E, blkno, level, tr) ==
    LET node == PageGetItem(P, blkno, E, mp.m) IN
    IF level > node.level THEN [P |-> P, tr |-> tr]
    ELSE LET Rest(r) == RemoveFromGraph(r.P, mp, E, blkno, level + 1, r.tr)
         IN  Rest(RemoveFromLevel(P, mp, E, blkno, level, 1,
                      hnswValidateNeighborCount(node.neighborCount[level], mp.m), tr))

\* lines 647-660 and 2913-2924: the valid neighbours of the node in the order
\* the replacement loops visit them, level node->level first
RECURSIVE ReplacementCandidates(_, _, _, _, _)
ReplacementCandidates(P, node, E, m, level) ==
    IF level < 0 THEN <<>>
    ELSE LET tbl == HnswGetNeighborsSafe(node, level, E, m)
             neighborCount == hnswValidateNeighborCount(node.neighborCount[level], m)
             valid(nb) == nb # InvalidBlockNumber /\ hnswValidateBlockNumber(nb, P)
         IN  SelectSeq(SubSeq(tbl, 1, neighborCount), valid)
                 \o ReplacementCandidates(P, node, E, m, level - 1)

NoEntry == [found |-> FALSE, blk |-> InvalidBlockNumber, level |-> -1, tr |-> <<>>]

\* lines 657-686 (hnswbulkdelete): the first neighbour whose page is not empty
\* and whose level field is valid
RECURSIVE FirstValidEntry(_, _, _, _, _, _)
FirstValidEntry(P, E, m, cands, i, tr) ==
    IF i > Len(cands) THEN [NoEntry EXCEPT !.tr = tr]
    ELSE LET nb == cands[i]
             tr2 == tr \o <<Acq(nb, "S"), Rel(nb)>>
             tmpNode == PageGetItem(P, nb, E, m)
         IN  IF ~PageIsEmpty(P, nb) /\ hnswValidateLevelSafe(tmpNode.level)
             THEN [found |-> TRUE, blk |-> nb, level |-> tmpNode.level, tr |-> tr2]
             ELSE FirstValidEntry(P, E, m, cands, i + 1, tr2)

\* lines 2921-2955 (hnswdelete): the neighbour of the highest level, the first
\* of them in visiting order
RECURSIVE HighestEntry(_, _, _, _, _, _)
HighestEntry(P, E, m, cands, i, best) ==
    IF i > Len(cands) THEN best
    ELSE LET nb == cands[i]
             tr2 == best.tr \o <<Acq(nb, "S"), Rel(nb)>>
             neighborNode == PageGetItem(P, nb, E, m)
         IN  HighestEntry(P, E, m, cands, i + 1,
                 IF /\ ~PageIsEmpty(P, nb)
                    /\ hnswValidateLevelSafe(neighborNode.level)
                    /\ neighborNode.level > best.level
                 THEN [found |-> TRUE, blk |-> nb, level |-> neighborNode.level, tr |-> tr2]
                 ELSE [best EXCEPT !.tr = tr2])

\* lines 643-695 and 2907-2970: the meta page after the entry point's deletion
ReplaceEntry(mp, e) ==
    [mp EXCEPT !.entryPoint = e.blk, !.entryLevel = e.level]

\* The removal that leaves the count of the meta page as it was: a variant that
\* the count of live nodes must tell apart from the code's
DecrementInsertedMut(mp) == mp

\* lines 702-704 and 2984-2986
DecrementInserted(mp) ==
    [mp EXCEPT !.insertedVectors = IF @ - 1 < 0 THEN 0 ELSE @ - 1]

\* The removal without ItemIdSetDead: the node stays on its page
MarkDeadMut(mp, blkno, r, e) ==
    LET mp2 == DecrementInserted(IF mp.entryPoint = blkno THEN ReplaceEntry(mp, e) ELSE mp)
    IN  [P    |-> r.P,
         meta |-> mp2,
         tr   |-> r.tr \o e.tr \o <<WrMeta(mp2)>>]

\* lines 643-705 and 2907-2987: with the replacement entry e (if the node was
\* the entry point), the item is marked dead and the meta page updated; r is
\* what the removal from the neighbours left
MarkDead(mp, blkno, r, e) ==
    LET mp2 == DecrementInserted(IF mp.entryPoint = blkno THEN ReplaceEntry(mp, e) ELSE mp)
    IN  [P    |-> [r.P EXCEPT ![blkno] = DeadPage],
         meta |-> mp2,
         tr   |-> r.tr \o e.tr \o <<Wr(blkno, DeadPage), WrMeta(mp2)>>]

\* lines 643-705: the entry point's replacement, after the removal r
BulkDeleteUnlinked(mp, E, blkno, r) ==
    LET node == PageGetItem(r.P, blkno, E, mp.m) IN
    MarkDead(mp, blkno, r,
             IF mp.entryPoint = blkno
             THEN FirstValidEntry(r.P, E, mp.m,
                      ReplacementCandidates(r.P, node, E, mp.m, node.level), 1, <<>>)
             ELSE NoEntry)

\* lines 619-705: one node whose heap tuple the callback reports dead
BulkDeleteNode(P, mp, E, blkno) ==
    BulkDeleteUnlinked(mp, E, blkno, RemoveFromGraph(P, mp, E, blkno, 0, <<>>))

\* lines 585-709: for (blkno = 1; blkno < RelationGetNumberOfBlocks(index); blkno++)
RECURSIVE BulkDeleteScan(_, _, _, _, _, _, _)
BulkDeleteScan(P, mp, E, callback, blkno, tr, tuples_removed) ==
    IF blkno >= RelationGetNumberOfBlocks(P)
    THEN [P |-> P, meta |-> mp, tr |-> tr, tuples_removed |-> tuples_removed]
    ELSE LET tr1 == tr \o <<Acq(blkno, "X")>> IN
         IF \/ PageIsEmpty(P, blkno)
            \/ ItemIdIsDead(P, blkno)
            \/ ~hnswValidateLevelSafe(P[blkno].level)
            \/ P[blkno].heapPtr \notin callback
         THEN BulkDeleteScan(P, mp, E, callback, blkno + 1, tr1 \o <<Rel(blkno)>>,
                             tuples_removed)
         ELSE LET Rest(r) ==
                      BulkDeleteScan(r.P, r.meta, E, callback, blkno + 1,
                                     tr1 \o r.tr \o <<Rel(blkno)>>, tuples_removed + 1)
              IN  Rest(BulkDeleteNode(P, mp, E, blkno))

\* hnswbulkdelete(info, stats, callback, callback_state); callback is the set of
\* heap tuples the callback answers true for.  The meta page stays locked
\* exclusively over the whole scan.
hnswbulkdelete(P, mp, E, callback) ==
    LET Locked(r) ==
            [P |-> r.P, meta |-> r.meta, tr |-> <<Acq(0, "X")>> \o r.tr \o <<Rel(0)>>,
             tuples_removed |-> r.tuples_removed]
    IN  Locked(BulkDeleteScan(P, mp, E, callback, 1, <<>>, 0))

\* hnswFindNodeByTid(index, tid, &blkno, &offset).  ItemIdIsValid is true of
\* every line pointer, so a dead item is read too (as a page header, whose
\* heapPtr is no heap tuple's).
RECURSIVE hnswFindNodeByTid(_, _, _, _, _)
hnswFindNodeByTidMut(P, E, tid, blkno, tr) ==
    IF tid \in 1 .. Len(P)
    THEN [found |-> TRUE, blkno |-> tid, tr |-> tr \o <<Acq(tid, "S"), Rel(tid)>>]
    ELSE [found |-> FALSE, blkno |-> InvalidBlockNumber, tr |-> tr]

hnswFindNodeByTid(P, E, tid, blkno, tr) ==
    IF blkno >= RelationGetNumberOfBlocks(P)
    THEN [found |-> FALSE, blkno |-> InvalidBlockNumber, tr |-> tr]
    ELSE LET tr2 == tr \o <<Acq(blkno, "S"), Rel(blkno)>> IN
         IF ~PageIsEmpty(P, blkno) /\ PageGetItem(P, blkno, E, HNSW_MIN_M).heapPtr = tid
         THEN [found |-> TRUE, blkno |-> blkno, tr |-> tr2]
         ELSE hnswFindNodeByTid(P, E, tid, blkno + 1, tr2)

\* lines 2907-2987: the entry point's replacement, after the removal r
DeleteUnlinked(mp, E, nodeBlkno, r) ==
    LET node == PageGetItem(r.P, nodeBlkno, E, mp.m) IN
    MarkDead(mp, nodeBlkno, r,
             IF mp.entryPoint = nodeBlkno
             THEN HighestEntry(r.P, E, mp.m,
                      ReplacementCandidates(r.P, node, E, mp.m, node.level), 1, NoEntry)
             ELSE NoEntry)

\* lines 2863-2992: hnswdelete once the node's block is known
DeleteNode(P, mp, E, nodeBlkno) ==
    LET tr1 == <<Acq(0, "X"), Acq(nodeBlkno, "X")>>
        node0 == PageGetItem(P, nodeBlkno, E, mp.m)
    IN
    IF ~hnswValidateLevelSafe(node0.level)
    THEN [P |-> P, meta |-> mp,
          tr |-> tr1 \o <<Rel(nodeBlkno), Rel(0), [op |-> "error", blk |-> 0, arg |-> <<>>]>>]
    ELSE
    LET Locked(d) ==
            [P    |-> d.P,
             meta |-> d.meta,
             tr   |-> tr1 \o d.tr \o <<Rel(nodeBlkno), Rel(0)>>]
    IN  Locked(DeleteUnlinked(mp, E, nodeBlkno,
                              RemoveFromGraph(P, mp, E, nodeBlkno, 0, <<>>)))

\* lines 2863-2992, after the events f.tr of hnswFindNodeByTid
DeleteFound(P, mp, E, f) ==
    LET After(r) == [P |-> r.P, meta |-> r.meta, tr |-> f.tr \o r.tr]
    IN  After(DeleteNode(P, mp, E, f.blkno))

\* hnswdelete(index, tid, ...)
hnswdelete(P, mp, E, tid) ==
    LET Found(f) ==
            IF ~f.found THEN [P |-> P, meta |-> mp, tr |-> f.tr]
            ELSE DeleteFound(P, mp, E, f)
    IN  Found(hnswFindNodeByTid(P, E, tid, 1, <<>>))

\* hnswbeginscan(index, nkeys, norderbys): the scan's HnswScanOpaqueData
hnswbeginscan ==
    [ efSearch      |-> HNSW_DEFAULT_EF_SEARCH,
      firstCall     |-> TRUE,
      k             |-> 0,
      queryVector   |-> <<>>,        \* NULL
      results       |-> <<>>,
      distances     |-> <<>>,
      currentResult |-> 0,
      xs_heaptid    |-> 0 ]

\* hnswrescan(scan, keys, nkeys, orderbys, norderbys) with the ORDER BY argument
\* query; ef_guc and k_guc are the settings neurondb_hnsw_ef_search and
\* neurondb_hnsw_k (0: not set)
hnswrescan(mp, so, query, ef_guc, k_guc) ==
    LET efSearch == IF ef_guc > 0 THEN ef_guc ELSE mp.efSearch IN
    [so EXCEPT !.firstCall = TRUE,
               !.currentResult = 0,
               !.results = <<>>,
               !.distances = <<>>,
               !.efSearch = IF efSearch > HNSW_MAX_EF_SEARCH THEN HNSW_MAX_EF_SEARCH
                            ELSE efSearch,
               !.queryVector = query,
               !.k = IF k_guc > 0 THEN k_guc ELSE HNSW_DEFAULT_K]

\* The fetch that steps over the result behind the one it gives
GetTupleFetchMut(P, mp, E, so, tr) ==
    IF so.currentResult < Len(so.results)
    THEN [so  |-> [so EXCEPT !.currentResult = @ + 2,
                             !.xs_heaptid =
                                 PageGetItem(P, so.results[so.currentResult + 1], E, mp.m).heapPtr],
          ret |-> TRUE,
          tr  |-> tr]
    ELSE [so |-> so, ret |-> FALSE, tr |-> tr]

\* lines 1003-1049: the result at so->currentResult, if there is one.  ret is
\* what hnswgettuple returns.
GetTupleFetch(P, mp, E, so, tr) ==
    IF so.currentResult < Len(so.results)
    THEN LET resultBlkno == so.results[so.currentResult + 1]
             so1 == [so EXCEPT !.currentResult = @ + 1]
         IN
         IF ~hnswValidateBlockNumber(resultBlkno, P)
         THEN [so |-> so1, ret |-> FALSE, tr |-> tr]
         ELSE IF PageIsEmpty(P, resultBlkno)
         THEN [so |-> so1, ret |-> FALSE,
               tr |-> tr \o <<Acq(resultBlkno, "S"), Rel(resultBlkno)>>]
         ELSE [so  |-> [so1 EXCEPT !.xs_heaptid =
                                       PageGetItem(P, resultBlkno, E, mp.m).heapPtr],
               ret |-> TRUE,
               tr  |-> tr \o <<Acq(resultBlkno, "S"), Rel(resultBlkno)>>]
    ELSE [so |-> so, ret |-> FALSE, tr |-> tr]

\* lines 980-1001: what the first call leaves in the scan, given the search s
GetTupleSearched(so, s) ==
    [so |-> [so EXCEPT !.results = s.results,
                       !.distances = s.distances,
                       !.firstCall = FALSE,
                       !.currentResult = 0],
     tr |-> <<Acq(0, "S")>> \o s.tr \o <<Rel(0)>>]

\* hnswgettuple(scan, dir).  On the first call the search runs with the meta
\* page share-locked and no PG_CATCH block around it; then the page of the
\* result at currentResult is read for its heap pointer.
hnswgettuple(P, mp, E, so) ==
    LET Fetch(r) == GetTupleFetch(P, mp, E, r.so, r.tr) IN
    IF so.firstCall
    THEN IF so.queryVector = <<>>
         THEN [so |-> so, ret |-> FALSE, tr |-> <<Acq(0, "S"), Rel(0)>>]
         ELSE Fetch(GetTupleSearched(so,
                        hnswSearch(P, mp, E, so.queryVector, so.efSearch, so.k)))
    ELSE Fetch([so |-> so, tr |-> <<>>])

(***************************************************************************)
(* hnsw_search_layer (hnsw_scan.c).  The search is cut where it has just   *)
(* locked a page and is about to read it: a continuation c records where   *)
(* it stands, and each operator below runs the code from there to the next *)
(* such point, on the pages as they then are.                              *)
(***************************************************************************)
Swap(h, i, j) == [h EXCEPT ![i] = h[j], ![j] = h[i]]

\* hnswInsertCandidate, lines 259-277: bubble up
RECURSIVE HeapUp(_, _)
HeapUp(h, i) ==
    IF i <= 1 THEN h
    ELSE LET parent == i \div 2 IN
         IF h[i].dist >= h[parent].dist THEN h
         ELSE HeapUp(Swap(h, i, parent), parent)

hnswInsertCandidate(sst, efSearch, block, distance) ==
    IF Len(sst.candidates) >= efSearch * 2 THEN sst
    ELSE [sst EXCEPT !.candidates =
              HeapUp(Append(sst.candidates, [blk |-> block, dist |-> distance]),
                     Len(sst.candidates) + 1)]

\* hnswExtractMinCandidate, lines 305-336: bubble down
RECURSIVE HeapDown(_, _)
HeapDown(h, i) ==
    LET left == 2 * i
        right == 2 * i + 1
        s1 == IF left <= Len(h) /\ h[left].dist < h[i].dist THEN left ELSE i
        s2 == IF right <= Len(h) /\ h[right].dist < h[s1].dist THEN right ELSE s1
    IN  IF s2 = i THEN h ELSE HeapDown(Swap(h, i, s2), s2)

hnswExtractMinCandidate(h) ==
    IF Len(h) = 1 THEN <<>>
    ELSE HeapDown(<<h[Len(h)]>> \o SubSeq(h, 2, Len(h) - 1), 1)

hnswMarkVisited(sst, block) == [sst EXCEPT !.visited = Append(@, block)]

hnswIsVisited(sst, block) == \E i \in 1 .. Len(sst.visited) : sst.visited[i] = block

\* hnswAddResult(state, block, distance): keeps k results, in no order
hnswAddResult(results, k, block, distance) ==
    IF Len(results) < k THEN Append(results, [blk |-> block, dist |-> distance])
    ELSE LET worstIdx == CHOOSE w \in 1 .. Len(results) :
                             /\ \A l \in 1 .. Len(results) : results[l].dist <= results[w].dist
                             /\ \A l \in 1 .. w - 1 : results[l].dist < results[w].dist
         IN  IF distance < results[worstIdx].dist
             THEN [results EXCEPT ![worstIdx] = [blk |-> block, dist |-> distance]]
             ELSE results

SLDone(c) == [tr |-> <<>>, next |-> [c EXCEPT !.kind = "done"]]

\* the events tr, then the stretch r of the search
SLAfter(tr, r) == [tr |-> tr \o r.tr, next |-> r.next]

RECURSIVE SLLayer0Next(_, _)
RECURSIVE SLLayer0Neighbor(_, _)

\* hnswSearchLayer0, lines 682-707: take the nearest candidate, lock its page
SLLayer0Next(P, c) ==
    IF Len(c.sst.candidates) = 0 THEN SLDone(c)
    ELSE LET top == c.sst.candidates[1]
             c1 == [c EXCEPT !.sst.candidates = hnswExtractMinCandidate(c.sst.candidates)]
         IN  IF /\ Len(c.sst.results) >= c.k
                /\ top.dist > c.sst.results[c.k].dist
             THEN SLLayer0Next(P, c1)
             ELSE [tr   |-> <<Acq(top.blk, "S")>>,
                   next |-> [c1 EXCEPT !.kind = "l0_enter", !.cur = top.blk]]

\* lines 762-785: the next neighbour to read, or, past the last, line 823
SLLayer0Neighbor(P, c) ==
    IF c.i > Len(c.nbrs)
    THEN SLLayer0Next(P, [c EXCEPT !.sst.results =
                              hnswAddResult(c.sst.results, c.k, c.cur, c.bestDist)])
    ELSE LET nb == c.nbrs[c.i] IN
         IF \/ nb = InvalidBlockNumber
            \/ nb >= RelationGetNumberOfBlocks(P)
            \/ hnswIsVisited(c.sst, nb)
         THEN SLLayer0Neighbor(P, [c EXCEPT !.i = @ + 1])
         ELSE [tr |-> <<Acq(nb, "S")>>, next |-> [c EXCEPT !.kind = "l0_nb"]]

\* lines 695-759: the candidate's page, read under its lock.  The lock and the
\* pin are dropped at line 759, before the loop over neighbors[], which still
\* points into the buffer: the slots read there are the node's if the buffer was
\* left alone (stale = "kept") and anything if it was recycled ("recycled").
SLLayer0Enter(P, E, c) ==
    LET node == PageGetItem(P, c.cur, E, c.m) IN
    IF PageIsEmpty(P, c.cur) \/ ~hnswValidateLevelSafe(node.level)
    THEN SLAfter(<<Rel(c.cur)>>, SLLayer0Next(P, c))
    ELSE LET neighborCount == hnswValidateNeighborCount(node.neighborCount[0], c.m)
             tbl == IF E.stale = "kept"
                    THEN HnswGetNeighborsSafe(node, 0, E, c.m)
                    ELSE [j \in 1 .. 2 * c.m |-> E.oob]
         IN  SLAfter(<<Rel(c.cur)>>,
                 SLLayer0Neighbor(P,
                      [c EXCEPT !.nbrs = SubSeq(tbl, 1, neighborCount),
                                !.i = 1,
                                !.bestDist = hnswComputeDistance(c.query, HnswGetVector(node), Len(c.query)),
                                !.furthest = IF Len(c.sst.results) >= c.k
                                             THEN c.sst.results[c.k].dist
                                             ELSE FLT_MAX]))

\* lines 785-819: a neighbour's page, read under its lock
SLLayer0Visit(P, E, c) ==
    LET nb == c.nbrs[c.i]
        neighborDist == hnswComputeDistance(c.query, HnswGetVector(PageGetItem(P, nb, E, c.m)), Len(c.query))
        c1 == IF ~PageIsEmpty(P, nb)
                 /\ (neighborDist < c.furthest \/ Len(c.sst.results) < c.k)
              THEN [c EXCEPT !.sst = hnswMarkVisited(
                                         hnswInsertCandidate(c.sst, c.efSearch, nb, neighborDist),
                                         nb)]
              ELSE c
    IN  SLAfter(<<Rel(nb)>>, SLLayer0Neighbor(P, [c1 EXCEPT !.i = @ + 1]))

\* hnsw_search_layer, lines 459-481: one greedy pass per upper layer, then layer 0
\* (lines 676-679: the entry point is queued with distance 0.0)
SLEnterLayer(P, c, layer, entry) ==
    IF layer > 0
    THEN [tr   |-> <<Acq(entry, "S")>>,
          next |-> [c EXCEPT !.kind = "g_enter", !.layer = layer,
                             !.cur = entry, !.best = entry]]
    ELSE SLLayer0Next(P,
             [c EXCEPT !.layer = 0,
                       !.sst = hnswMarkVisited(
                                   hnswInsertCandidate(c.sst, c.efSearch, entry, 0), entry)])

\* hnswSearchLayerGreedy, lines 576-602 and 640: the next neighbour to lock,
\* with the current node's page still locked; past the last, the page is
\* unlocked and the loop goes round (while (changed)) or the layer is left
RECURSIVE SLGreedyNeighbor(_, _)
SLGreedyNeighbor(P, c) ==
    IF c.i > Len(c.nbrs)
    THEN SLAfter(<<Rel(c.cur)>>,
                 IF c.changed
                 THEN [tr   |-> <<Acq(c.best, "S")>>,
                       next |-> [c EXCEPT !.kind = "g_enter", !.cur = c.best]]
                 ELSE SLEnterLayer(P, c, c.layer - 1, c.best))
    ELSE LET nb == c.nbrs[c.i] IN
         IF nb = InvalidBlockNumber \/ nb >= RelationGetNumberOfBlocks(P)
         THEN SLGreedyNeighbor(P, [c EXCEPT !.i = @ + 1])
         ELSE [tr |-> <<Acq(nb, "S")>>, next |-> [c EXCEPT !.kind = "g_nb"]]

\* hnswSearchLayerGreedy, lines 508-574: the current node's page, read under
\* its lock.  The table of `layer` is read whatever the node's level is.
SLGreedyEnter(P, E, c) ==
    LET node == PageGetItem(P, c.cur, E, c.m) IN
    IF PageIsEmpty(P, c.cur) \/ ~hnswValidateLevelSafe(node.level)
    THEN SLAfter(<<Rel(c.cur)>>, SLEnterLayer(P, c, c.layer - 1, c.best))
    ELSE SLGreedyNeighbor(P,
             [c EXCEPT !.nbrs = SubSeq(HnswGetNeighborsSafe(node, c.layer, E, c.m), 1,
                                       hnswValidateNeighborCount(
                                           node.neighborCount[c.layer], c.m)),
                       !.i = 1,
                       !.changed = FALSE,
                       !.bestDist = hnswComputeDistance(c.query, HnswGetVector(node), Len(c.query))])

\* The descent that also moves to a neighbour at the same distance
SLGreedyVisitLeMut(P, E, c) ==
    LET nb == c.nbrs[c.i]
        neighborDist == hnswComputeDistance(c.query, HnswGetVector(PageGetItem(P, nb, E, c.m)), Len(c.query))
        c1 == IF ~PageIsEmpty(P, nb) /\ neighborDist <= c.bestDist
              THEN [c EXCEPT !.best = nb, !.bestDist = neighborDist, !.changed = TRUE]
              ELSE c
    IN  SLAfter(<<Rel(nb)>>, SLGreedyNeighbor(P, [c1 EXCEPT !.i = @ + 1]))

\* hnswSearchLayerGreedy, lines 602-637: a neighbour's page, read under its
\* lock while the current node's page is still locked
SLGreedyVisit(P, E, c) ==
    LET nb == c.nbrs[c.i]
        neighborDist == hnswComputeDistance(c.query, HnswGetVector(PageGetItem(P, nb, E, c.m)), Len(c.query))
        c1 == IF ~PageIsEmpty(P, nb) /\ neighborDist < c.bestDist
              THEN [c EXCEPT !.best = nb, !.bestDist = neighborDist, !.changed = TRUE]
              ELSE c
    IN  SLAfter(<<Rel(nb)>>, SLGreedyNeighbor(P, [c1 EXCEPT !.i = @ + 1]))

\* hnsw_search_layer(index, entryPoint, entryLevel, query, dim, strategy,
\* efSearch, k, ...), lines 408-457: up to the first page read.  The meta page
\* is share-locked for the time it takes to read m.
SLStart(P, mp, entryPoint, entryLevel, query, efSearch, k) ==
    LET c0 == [kind |-> "start", layer |-> entryLevel, cur |-> entryPoint,
               best |-> entryPoint, bestDist |-> 0, furthest |-> 0, changed |-> FALSE,
               nbrs |-> <<>>, i |-> 1, query |-> query, m |-> mp.m,
               efSearch |-> efSearch, k |-> k,
               sst |-> [candidates |-> <<>>, visited |-> <<>>, results |-> <<>>]]
    IN  IF entryPoint = InvalidBlockNumber \/ entryLevel < 0 THEN SLDone(c0)
        ELSE SLAfter(<<Acq(0, "S"), Rel(0)>>, SLEnterLayer(P, c0, entryLevel, entryPoint))

\* from one page read to the next
SLStep(P, E, c) ==
    CASE c.kind = "g_enter"  -> SLGreedyEnter(P, E, c)
      [] c.kind = "g_nb"     -> SLGreedyVisit(P, E, c)
      [] c.kind = "l0_enter" -> SLLayer0Enter(P, E, c)
      [] c.kind = "l0_nb"    -> SLLayer0Visit(P, E, c)

\* the whole of hnsw_search_layer on an index that nothing else touches
RECURSIVE SLRun(_, _, _)
SLRun(P, E, r) ==
    IF r.next.kind = "done"
    THEN [results   |-> [j \in 1 .. Len(r.next.sst.results) |-> r.next.sst.results[j].blk],
          distances |-> [j \in 1 .. Len(r.next.sst.results) |-> r.next.sst.results[j].dist],
          tr        |-> r.tr,
          \* for the record: the blocks it queued as candidates, with their distances
          cand      |-> [j \in 1 .. Len(r.next.sst.visited) |->
                            [blk  |-> r.next.sst.visited[j],
                             dist |-> hnswComputeDistance(r.next.query,
                                          HnswGetVector(PageGetItem(P, r.next.sst.visited[j],
                                                                    E, r.next.m)), Len(r.next.query))]]]
    ELSE SLRun(P, E, SLAfter(r.tr, SLStep(P, E, r.next)))

hnsw_search_layer(P, mp, E, entryPoint, entryLevel, query, efSearch, k) ==
    SLRun(P, E, SLStart(P, mp, entryPoint, entryLevel, query, efSearch, k))

(***************************************************************************)
(* What the host leaves undefined                                          *)
(***************************************************************************)
\* deadLevel: the level field of a page header read as a node (0, or a value
\* that hnswValidateLevelSafe rejects); oob: what a neighbour slot past the end
\* of an item reads as.
OobValues == {InvalidBlockNumber, 0, 1}
StaleValues == {"kept", "recycled"}

\* some neighbour count of a live node covers slots past the end of its item
HasOobSlots(P) ==
    \E b \in 1 .. Len(P) :
        /\ P[b].state = "normal"
        /\ \E l \in Layers : l > P[b].level /\ P[b].neighborCount[l] > 0

HasDeadPage(P) == \E b \in 1 .. Len(P) : P[b].state = "dead"

\* The choices that can show in a handler that starts from P and kills `kills`
\* nodes: without a dead page no page header is read as a node, and without a
\* count above a node's level no slot past an item is read.
Oracles(P, kills) ==
    [ deadLevel : IF HasDeadPage(P) \/ kills > 1 THEN {0, HNSW_MAX_LEVEL} ELSE {0},
      oob       : IF HasOobSlots(P) THEN OobValues ELSE {InvalidBlockNumber},
      stale     : {"kept"} ]

InitMeta ==
    [ entryPoint      |-> InvalidBlockNumber,
      entryLevel      |-> -1,
      maxLevel        |-> -1,
      m               |-> HNSW_MIN_M,
      efConstruction  |-> HNSW_MIN_EF_CONSTRUCTION,
      efSearch        |-> HNSW_MIN_EF_SEARCH,
      insertedVectors |-> 0 ]

Idle == [pc |-> "idle", op |-> "-", tr |-> <<>>]

\* no scan is open: ret is what hnswgettuple last returned, as a string ("-": not called
\* since hnswrescan), returned the results it has given, by their index
NoScan == [open |-> FALSE, so |-> hnswbeginscan, ret |-> "-", returned |-> <<>>]

NoneCalled == [fn |-> "-", in |-> <<>>, out |-> <<>>]

Init ==
    /\ pages = <<>>
    /\ meta = InitMeta
    /\ thr = [t \in Threads |-> Idle]
    /\ locks = [t \in Threads |-> <<>>]
    /\ scan = NoScan
    /\ called = NoneCalled

\* the pages and the meta page as a handler leaves them
Returns(r) == pages' = r.P /\ meta' = r.meta

Insert(vector, level) ==
    /\ Len(pages) < MaxPages
    /\ \E E \in Oracles(pages, 0) :
           Returns(hnswinsert(pages, meta, E, vector, Len(pages) + 1, level))
    /\ UNCHANGED <<thr, locks, scan, called>>

\* the heap tuples whose index nodes are live
LiveTids(P) == {P[b].heapPtr : b \in {c \in 1 .. Len(P) : P[c].state = "normal"}}

BulkDelete(callback) ==
    /\ callback # {}
    /\ \E E \in Oracles(pages, Cardinality(callback)) :
           Returns(hnswbulkdelete(pages, meta, E, callback))
    /\ UNCHANGED <<thr, locks, scan, called>>

Delete(tid) ==
    /\ \E E \in Oracles(pages, 1) :
           Returns(hnswdelete(pages, meta, E, tid))
    /\ UNCHANGED <<thr, locks, scan, called>>

Next ==
    \/ \E v \in Coords, l \in Levels : Insert(<<v>>, l)
    \/ \E callback \in SUBSET LiveTids(pages) : BulkDelete(callback)
    \/ \E tid \in 1 .. Len(pages) : Delete(tid)

Spec == Init /\ [][Next]_vars

(***************************************************************************)
(* Scans (SpecScan): hnswrescan and hnswgettuple, with inserts and deletes *)
(* between the calls, and hnsw_search_layer                                *)
(***************************************************************************)
\* hnswbeginscan and hnswrescan
Rescan(query, ef_guc, k_guc) ==
    /\ scan' = [open     |-> TRUE,
                so       |-> hnswrescan(meta, hnswbeginscan, query, ef_guc, k_guc),
                ret      |-> "-",
                returned |-> <<>>]
    /\ UNCHANGED <<pages, meta, thr, locks, called>>

\* the scan after hnswgettuple returned r
Gotten(r) ==
    scan' = [scan EXCEPT !.so = r.so,
                         !.ret = IF r.ret THEN "true" ELSE "false",
                         !.returned = IF r.ret THEN Append(@, r.so.currentResult) ELSE @]

\* hnswgettuple; once it has returned false the executor ends the scan
GetTuple ==
    /\ scan.open /\ scan.ret # "false"
    /\ \E E \in Oracles(pages, 0) : Gotten(hnswgettuple(pages, meta, E, scan.so))
    /\ UNCHANGED <<pages, meta, thr, locks, called>>

\* what a search returned
Searched(fn, query, efSearch, k, r) ==
    called' = [fn  |-> fn,
               in  |-> [query |-> query, efSearch |-> efSearch, k |-> k],
               out |-> [results |-> r.results, distances |-> r.distances, cand |-> r.cand]]

\* hnsw_search_layer, with the entry point and level of the meta page
SearchLayer(query, k) ==
    /\ \E E \in Oracles(pages, 0) :
           Searched("hnsw_search_layer", query, meta.efSearch, k,
                    hnsw_search_layer(pages, meta, E, meta.entryPoint, meta.entryLevel,
                                      query, meta.efSearch, k))
    /\ UNCHANGED <<pages, meta, thr, locks, scan>>

GucK == 0 .. MaxGucK
GucEf == 0 .. MaxGucEf

\* hnswSearch, with the meta page as it is
Search(query, efSearch, k) ==
    /\ \E E \in Oracles(pages, 0) :
           Searched("hnswSearch", query, efSearch, k,
                    hnswSearch(pages, meta, E, query, efSearch, k))
    /\ UNCHANGED <<pages, meta, thr, locks, scan>>

NextScan ==
    \/ \E v \in Coords, l \in Levels : Len(pages) < MaxScanPages /\ Insert(<<v>>, l)
    \/ \E tid \in 1 .. Len(pages) : Delete(tid)
    \/ \E callback \in SUBSET LiveTids(pages) : BulkDelete(callback)
    \/ \E v \in Coords, ef \in GucEf, k \in GucK : Rescan(<<v>>, ef, k)
    \/ GetTuple

SpecScan == Init /\ [][NextScan]_vars

\* the k that callers ask for
Ks == (GucK \ {0}) \cup {HNSW_DEFAULT_K}

NextSearch ==
    \/ \E v \in Coords, l \in Levels : Len(pages) < MaxScanPages /\ Insert(<<v>>, l)
    \/ \E tid \in 1 .. Len(pages) : Delete(tid)
    \/ \E v \in Coords, k \in Ks : SearchLayer(<<v>>, k)
    \/ \E v \in Coords, k \in Ks, ef \in {meta.efSearch} \cup (GucEf \ {0}) :
           Search(<<v>>, ef, k)

SpecSearch == Init /\ [][NextSearch]_vars

(***************************************************************************)
(* The layer-0 loop of hnswSearch (SpecExplore): one search of an index    *)
(* that inserts built, with the order in which it took the candidates      *)
(***************************************************************************)
\* what the layer-0 loop of a search did
Explored(query, efSearch, k, r) ==
    called' = [fn  |-> "hnswSearch layer 0",
               in  |-> [query |-> query, efSearch |-> efSearch, k |-> k],
               out |-> [order |-> r.order, left |-> r.left, cand |-> r.cand]]

Explore(query, efSearch, k) ==
    /\ \E E \in Oracles(pages, 0) :
           Explored(query, efSearch, k, hnswSearch(pages, meta, E, query, efSearch, k))
    /\ UNCHANGED <<pages, meta, thr, locks, scan>>

NextExplore ==
    /\ called = NoneCalled
    /\ \/ \E v \in Coords, l \in Levels : Insert(<<v>>, l)
       \/ \E v \in Coords, k \in GucK \ {0}, ef \in {meta.efSearch} \cup (GucEf \ {0}) :
              Explore(<<v>>, ef, k)

SpecExplore == Init /\ [][NextExplore]_vars

(***************************************************************************)
(* Inserts of vectors of several dimensions (SpecDim) and the node size    *)
(* (SpecSize)                                                              *)
(***************************************************************************)
\* the vector of dim floats (v, 0, ..., 0)
Vec(v, dim) == [i \in 1 .. dim |-> IF i = 1 THEN v ELSE 0]

\* no node of P holds fewer floats than vector has: hnswComputeDistance, which
\* reads Len(vector) floats of each node it meets, stays inside their vectors
ReadsInside(P, vector) ==
    \A b \in 1 .. Len(P) : P[b].state = "normal" => Len(vector) <= Len(P[b].vector)

\* the index and `called' after hnswinsert returned r (or raised)
Inserted(vector, level, r) ==
    /\ Returns(r)
    /\ called' = [fn  |-> "hnswinsert",
                  in  |-> [dim |-> Len(vector), level |-> level,
                           pages |-> pages, meta |-> meta],
                  out |-> [raised |-> r.raised, locked |-> r.tr # <<>>]]

\* hnswinsert of a vector of any dimension.  The inserts taken are those whose
\* distance computations stay inside the stored vectors: the vector is no
\* longer than those of the nodes, or Step 4 raises before any distance is
\* computed (level 0: Step 3 does not run).
InsertDim(vector, level) ==
    /\ Len(pages) < MaxScanPages
    /\ \/ ReadsInside(pages, vector)
       \/ /\ level = 0
          /\ PageGetFreeSpace < hnswComputeNodeSizeSafe(Len(vector), level, meta.m).result
    /\ \E E \in Oracles(pages, 0) :
           Inserted(vector, level, hnswinsert(pages, meta, E, vector, Len(pages) + 1, level))
    /\ UNCHANGED <<thr, locks, scan>>

\* the dimensions of SpecDim: 1 .. MaxDim, and BLCKSZ / sizeof(float4), whose
\* vector fills a page by itself
Dims == (1 .. MaxDim) \cup {BLCKSZ \div SizeofFloat4}

NextDim == \E v \in Coords, dim \in Dims, l \in Levels : InsertDim(Vec(v, dim), l)

SpecDim == Init /\ [][NextDim]_vars

\* a call of hnswComputeNodeSizeSafe
ComputeNodeSize(dim, level, m) ==
    /\ called' = [fn  |-> "hnswComputeNodeSizeSafe",
                  in  |-> [dim |-> dim, level |-> level, m |-> m],
                  out |-> hnswComputeNodeSizeSafe(dim, level, m)]
    /\ UNCHANGED <<pages, meta, thr, locks, scan>>

\* dimensions 1, 2, 4, ..., 2^MaxDimBits, and the largest (2^15 - 1)
RECURSIVE Pow2(_)
Pow2(n) == IF n = 0 THEN 1 ELSE 2 * Pow2(n - 1)

SizeDims == {Pow2(n) : n \in 0 .. MaxDimBits} \cup {Pow2(15) - 1}

\* the function keeps no state, so a behaviour holds one call
NextSize ==
    /\ called = NoneCalled
    /\ \E dim \in SizeDims, level \in 0 .. HNSW_MAX_LEVEL - 1, m \in HNSW_MIN_M .. HNSW_MAX_M :
           ComputeNodeSize(dim, level, m)

SpecSize == Init /\ [][NextSize]_vars

(***************************************************************************)
(* The visited list of a search (SpecVisited)                              *)
(***************************************************************************)
\* hnswInitSearchState: visitedCapacity = efSearch * 4, then hnswMarkVisited
\* doubles it whenever the list is full; after `doublings` doublings
ScanVisitedCapacity(efSearch, doublings) == efSearch * 4 * Pow2(doublings)

\* hnswSearch: visitedCapacity = (efSearch > 1 ? efSearch * 2 : 32), doubled
\* up to HNSW_MAX_VISITED_CAPACITY
SearchVisitedCapacity(efSearch, doublings) ==
    Min((IF efSearch > 1 THEN efSearch * 2 ELSE 32) * Pow2(doublings), HNSW_MAX_VISITED_CAPACITY)

\* hnswMarkVisited(state, block) on the list v: grows the list when it is
\* full, whatever its capacity, then stores block at visited[visitedCount]
MarkVisitedList(v) ==
    LET capacity == IF v.visitedCount >= v.visitedCapacity
                    THEN v.visitedCapacity * 2
                    ELSE v.visitedCapacity
    IN  [visitedCount    |-> v.visitedCount + 1,
         visitedCapacity |-> capacity,
         written         |-> v.visitedCount,
         room            |-> capacity]

\* hnswSearch's visited[visitedCount++] = neighbors[j], and the growth that
\* follows it: none once the capacity is HNSW_MAX_VISITED_CAPACITY
SearchMarkVisited(v) ==
    LET count == v.visitedCount + 1
    IN  [visitedCount    |-> count,
         visitedCapacity |-> IF count >= v.visitedCapacity
                                /\ v.visitedCapacity < HNSW_MAX_VISITED_CAPACITY
                             THEN Min(v.visitedCapacity * 2, HNSW_MAX_VISITED_CAPACITY)
                             ELSE v.visitedCapacity,
         written         |-> v.visitedCount,
         room            |-> v.visitedCapacity]

EfSearches == {HNSW_MIN_EF_SEARCH, HNSW_DEFAULT_EF_SEARCH}

\* the lists a search of hnsw_scan.c can hold before a call of
\* hnswMarkVisited: every call adds one entry and the capacity doubles when
\* the call finds the list full, so a list that was doubled `doublings` times
\* holds more entries than the capacity before and at most its capacity
ScanVisitedLists ==
    {[efSearch |-> ef, visitedCount |-> ScanVisitedCapacity(ef, d) - back,
      visitedCapacity |-> ScanVisitedCapacity(ef, d)] :
        ef \in EfSearches, d \in 0 .. MaxDoublings, back \in 0 .. 3}

\* the lists hnswSearch can hold before it stores a neighbour: the growth
\* follows every store, so the list is never full, and the layer-0 loop
\* stops once efSearch candidates are held, one node's neighbours later
SearchVisitedLists ==
    {v \in {[efSearch |-> ef, visitedCount |-> SearchVisitedCapacity(ef, d) - back,
             visitedCapacity |-> SearchVisitedCapacity(ef, d)] :
                ef \in EfSearches, d \in 0 .. MaxDoublings, back \in 1 .. 3} :
        v.visitedCount < v.efSearch + 2 * HNSW_MAX_M}

Marked(fn, v, w) ==
    /\ called' = [fn |-> fn, in |-> v, out |-> w]
    /\ UNCHANGED <<pages, meta, thr, locks, scan>>

\* a call of hnswMarkVisited by a search of hnsw_scan.c
MarkVisitedCall(v) == Marked("hnswMarkVisited", v, MarkVisitedList(v))

\* one store into the visited list by hnswSearch
SearchMarkCall(v) == Marked("hnswSearch visited", v, SearchMarkVisited(v))

\* the two functions work on the list alone, so a behaviour holds one call
NextVisited ==
    /\ called = NoneCalled
    /\ \/ \E v \in ScanVisitedLists : MarkVisitedCall(v)
       \/ \E v \in SearchVisitedLists : SearchMarkCall(v)

SpecVisited == Init /\ [][NextVisited]_vars

(***************************************************************************)
(* Searches of an index with a corrupt neighbour count (SpecCorrupt)       *)
(***************************************************************************)
\* P with the layer-0 neighbour count of the node at blkno overwritten
Corrupted(P, blkno, count) == [P EXCEPT ![blkno].neighborCount[0] = count]

\* what a search of the corrupt index returned (r), and what the same search
\* returns once the count is repaired to 2m (repaired)
CorruptSearched(fn, blkno, count, query, k, r, repaired) ==
    called' = [fn  |-> fn,
               in  |-> [blkno |-> blkno, count |-> count, query |-> query, k |-> k],
               out |-> [results |-> r.results, cand |-> r.cand,
                        repaired |-> repaired.results]]

\* hnswSearch on the index whose node at blkno has count as its layer-0 count
CorruptSearch(blkno, count, query, k) ==
    /\ pages[blkno].state = "normal"
    /\ \E E \in Oracles(pages, 0) :
           CorruptSearched("hnswSearch", blkno, count, query, k,
               hnswSearch(Corrupted(pages, blkno, count), meta, E, query, meta.efSearch, k),
               hnswSearch(Corrupted(pages, blkno, 2 * meta.m), meta, E, query,
                          meta.efSearch, k))
    /\ UNCHANGED <<pages, meta, thr, locks, scan>>

\* hnsw_search_layer on the same index
CorruptSearchLayer(blkno, count, query, k) ==
    /\ pages[blkno].state = "normal"
    /\ \E E \in Oracles(pages, 0) :
           CorruptSearched("hnsw_search_layer", blkno, count, query, k,
               hnsw_search_layer(Corrupted(pages, blkno, count), meta, E, meta.entryPoint,
                                 meta.entryLevel, query, meta.efSearch, k),
               hnsw_search_layer(Corrupted(pages, blkno, 2 * meta.m), meta, E,
                                 meta.entryPoint, meta.entryLevel, query, meta.efSearch, k))
    /\ UNCHANGED <<pages, meta, thr, locks, scan>>

\* the corrupt counts: 2m + 1 and 2m + MaxExcess
CorruptCounts(m) == {2 * m + 1, 2 * m + MaxExcess}

\* a search leaves the index alone, so a behaviour ends with one
NextCorrupt ==
    /\ called = NoneCalled
    /\ \/ \E v \in Coords, l \in Levels : Len(pages) < MaxScanPages /\ Insert(<<v>>, l)
       \/ \E tid \in 1 .. Len(pages) : Delete(tid)
       \/ \E b \in 1 .. Len(pages), c \in CorruptCounts(meta.m), v \in Coords, k \in Ks :
              CorruptSearch(b, c, <<v>>, k)
       \/ \E b \in 1 .. Len(pages), c \in CorruptCounts(meta.m), v \in Coords, k \in Ks :
              CorruptSearchLayer(b, c, <<v>>, k)

SpecCorrupt == Init /\ [][NextCorrupt]_vars

(***************************************************************************)
(* Runs of the same inserts (SpecRuns)                                     *)
(***************************************************************************)
\* the graph a handler leaves: every page and the meta page
Graph(r) == [pages |-> r.P, meta |-> r.meta]

\* the index after hnswinsert returned r; graphs are the graphs that runs of
\* the same call on the same index can leave
InsertedOf(vector, level, r, graphs) ==
    /\ Returns(r)
    /\ called' = [fn  |-> "hnswinsert",
                  in  |-> [vector |-> vector, level |-> level],
                  out |-> [graphs |-> Cardinality(graphs)]]

\* hnswinsert with the drawn level given, next to every other run of it
InsertRuns(vector, level) ==
    /\ Len(pages) < MaxRunInserts
    /\ \E E \in Oracles(pages, 0) :
           InsertedOf(vector, level,
               hnswinsert(pages, meta, E, vector, Len(pages) + 1, level),
               {Graph(hnswinsert(pages, meta, F, vector, Len(pages) + 1, level)) :
                   F \in Oracles(pages, 0)})
    /\ UNCHANGED <<thr, locks, scan>>

NextRuns == \E v \in Coords, l \in Levels : InsertRuns(<<v>>, l)

SpecRuns == Init /\ [][NextRuns]_vars

(***************************************************************************)
(* hnswdelete of any heap tid (SpecDelete): one call after inserts,        *)
(* deletes and bulk-deletes, with the index as it was before the call      *)
(***************************************************************************)
Deleted(tid, r) ==
    /\ called' = [fn  |-> "hnswdelete",
                  in  |-> [tid |-> tid, live |-> tid \in LiveTids(pages),
                           pages |-> pages, meta |-> meta],
                  out |-> [raised |-> \E i \in 1 .. Len(r.tr) : r.tr[i].op = "error"]]
    /\ Returns(r)

\* hnswdelete(index, values, isnull, tid, ...) of a tuple that is indexed, was
\* indexed, or never was
DeleteCall(tid) ==
    /\ \E E \in Oracles(pages, 1) : Deleted(tid, hnswdelete(pages, meta, E, tid))
    /\ UNCHANGED <<thr, locks, scan>>

NextDelete ==
    /\ called = NoneCalled
    /\ \/ \E v \in Coords, l \in Levels : Insert(<<v>>, l)
       \/ \E callback \in SUBSET LiveTids(pages) : BulkDelete(callback)
       \/ \E tid \in 1 .. Len(pages) + 1 : DeleteCall(tid)

SpecDelete == Init /\ [][NextDelete]_vars

(***************************************************************************)
(* hnswRemoveNodeFromNeighbor (SpecRemove): one call, with arguments that  *)
(* the loops of hnswbulkdelete and hnswdelete pass, on an index that       *)
(* inserts built                                                           *)
(***************************************************************************)
\* what a slot past the end of an item can read as, after the call
RemoveOracles == [deadLevel : {0}, oob : OobValues, stale : {"kept"}]

\* the index and `called' after the call returned r: in holds the table and the
\* count the call read, out the count it left and every table that a read of
\* the neighbour's page can show afterwards
Removed(neighborBlkno, nodeBlkno, level, E, r) ==
    /\ pages' = r.P
    /\ meta' = meta
    /\ called' = [fn  |-> "hnswRemoveNodeFromNeighbor",
                  in  |-> [neighborBlkno |-> neighborBlkno, nodeBlkno |-> nodeBlkno,
                           level |-> level,
                           neighbors |-> HnswGetNeighborsSafe(pages[neighborBlkno], level,
                                                              E, meta.m),
                           neighborCount |-> pages[neighborBlkno].neighborCount[level]],
                  out |-> [neighbors |-> {HnswGetNeighborsSafe(r.P[neighborBlkno], level,
                                                               F, meta.m) :
                                              F \in RemoveOracles},
                           neighborCount |-> r.P[neighborBlkno].neighborCount[level],
                           dirty |-> r.P # pages]]

\* lines 622-640 and 2889-2904: the call for a neighbour of node nodeBlkno at one
\* of its layers; the caller holds the node's buffer, so the call for the node's
\* own page does not return
RemoveCall(neighborBlkno, nodeBlkno, level) ==
    /\ pages[nodeBlkno].state = "normal"
    /\ level <= pages[nodeBlkno].level
    /\ neighborBlkno \in {pages[nodeBlkno].neighbors[level][i] :
                              i \in 1 .. hnswValidateNeighborCount(
                                             pages[nodeBlkno].neighborCount[level], meta.m)}
    /\ neighborBlkno # nodeBlkno
    /\ \E E \in Oracles(pages, 0) :
           Removed(neighborBlkno, nodeBlkno, level, E,
                   hnswRemoveNodeFromNeighbor(pages, meta, E, neighborBlkno, nodeBlkno, level))
    /\ UNCHANGED <<thr, locks, scan>>

NextRemove ==
    /\ called = NoneCalled
    /\ \/ \E v \in Coords, l \in Levels : Insert(<<v>>, l)
       \/ \E neighborBlkno \in 1 .. Len(pages), nodeBlkno \in 1 .. Len(pages), level \in Layers :
              RemoveCall(neighborBlkno, nodeBlkno, level)

SpecRemove == Init /\ [][NextRemove]_vars

(***************************************************************************)
(* Vacuum passes (SpecVacuum): hnswbulkdelete with any predicate over the  *)
(* heap tuples, between inserts                                            *)
(***************************************************************************)
\* the index and `called' after hnswbulkdelete returned r; again says that the
\* call before this one was hnswbulkdelete with the same predicate
Vacuumed(callback, r) ==
    /\ Returns(r)
    /\ called' = [fn  |-> "hnswbulkdelete",
                  in  |-> [callback |-> callback, pages |-> pages, meta |-> meta,
                           again |-> /\ called.fn = "hnswbulkdelete"
                                     /\ called.in.callback = callback],
                  out |-> [tuples_removed |-> r.tuples_removed]]

\* hnswbulkdelete with stats = NULL; callback is the set of heap tuples the
\* predicate reports dead
Vacuum(callback) ==
    /\ \E E \in Oracles(pages, Cardinality(callback)) :
           Vacuumed(callback, hnswbulkdelete(pages, meta, E, callback))
    /\ UNCHANGED <<thr, locks, scan>>

NextVacuum ==
    \/ \E v \in Coords, l \in Levels : InsertDim(<<v>>, l)
    \/ \E callback \in SUBSET (1 .. MaxScanPages) : Vacuum(callback)

SpecVacuum == Init /\ [][NextVacuum]_vars

(***************************************************************************)
(* hnswbuild (SpecBuild): the build scan hands each heap tuple to          *)
(* hnswBuildCallback                                                       *)
(***************************************************************************)
\* hnswbuild up to table_index_build_scan: the meta page initialised, no tuple
\* indexed; result is -1 until hnswbuild returns
BuildBegin ==
    /\ called = NoneCalled
    /\ pages = <<>>
    /\ meta' = InitMeta
    /\ called' = [fn  |-> "hnswbuild",
                  in  |-> <<>>,
                  out |-> [indtuples |-> 0, reltuples |-> 0, index_tuples |-> -1]]
    /\ UNCHANGED <<pages, thr, locks, scan>>

\* hnswinsert with its first test (lines 496-497): nothing is done for a null value
InsertValue(isnull, vector, tid, level) ==
    IF isnull
    THEN UNCHANGED <<pages, meta>>
    ELSE \E E \in Oracles(pages, 0) :
             Returns(hnswinsert(pages, meta, E, vector, tid, level))

\* hnswBuildCallback for the next heap tuple of the scan: hnswinsert, whatever it
\* returns, then buildstate->indtuples++.  reltuples is the scan's own count of
\* the tuples it has handed over.
BuildCallback(isnull, vector, level) ==
    /\ called.fn = "hnswbuild"
    /\ called.out.index_tuples = -1
    /\ Len(called.in) < MaxBuildTuples
    /\ InsertValue(isnull, vector, Len(called.in) + 1, level)
    /\ called' = [called EXCEPT !.in = Append(@, isnull),
                                !.out.indtuples = @ + 1,
                                !.out.reltuples = @ + 1]
    /\ UNCHANGED <<thr, locks, scan>>

\* lines 400-413: buildstate.indtuples takes what table_index_build_scan
\* returns, and the result reports it
BuildEnd ==
    /\ called.fn = "hnswbuild"
    /\ called.out.index_tuples = -1
    /\ called' = [called EXCEPT !.out.indtuples = called.out.reltuples,
                                !.out.index_tuples = called.out.reltuples]
    /\ UNCHANGED <<pages, meta, thr, locks, scan>>

NextBuild ==
    \/ BuildBegin
    \/ \E isnull \in BOOLEAN, v \in Coords, l \in Levels : BuildCallback(isnull, <<v>>, l)
    \/ BuildEnd

SpecBuild == Init /\ [][NextBuild]_vars

(***************************************************************************)
(* Backends and the buffer manager's content locks (SpecLock)              *)
(***************************************************************************)
Plan(call) == [op |-> "plan", blk |-> 0, arg |-> call]

NoCall == [kind |-> "-", vector |-> <<0>>, level |-> 0, tid |-> 0, callback |-> {}, blkno |-> 0]

\* The handlers with hnswinsert taking the meta page in shared mode
OpeningSharedMut(call) ==
    CASE call.kind = "insert"     -> <<Acq(0, "S"), Plan(call)>>
      [] call.kind = "bulkdelete" -> <<Acq(0, "X"), Plan(call)>>
      [] call.kind = "gettuple"   -> <<Acq(0, "S"), Plan(call)>>
      [] call.kind = "delete"     -> <<Plan(call)>>

\* The handlers with hnswgettuple taking the meta page in exclusive mode
OpeningExclusiveMut(call) ==
    CASE call.kind = "insert"     -> <<Acq(0, "X"), Plan(call)>>
      [] call.kind = "bulkdelete" -> <<Acq(0, "X"), Plan(call)>>
      [] call.kind = "gettuple"   -> <<Acq(0, "X"), Plan(call)>>
      [] call.kind = "delete"     -> <<Plan(call)>>

\* What a handler does before it has read anything from the index
Opening(call) ==
    CASE call.kind = "insert"     -> <<Acq(0, "X"), Plan(call)>>
      [] call.kind = "bulkdelete" -> <<Acq(0, "X"), Plan(call)>>
      [] call.kind = "gettuple"   -> <<Acq(0, "S"), Plan(call)>>
      [] call.kind = "delete"     -> <<Plan(call)>>

\* hnswdelete after hnswFindNodeByTid: the meta page and the node's page are
\* locked, and the rest goes by what the node's page then holds
ContinueFound(call, f) ==
    IF f.found
    THEN f.tr \o <<Acq(0, "X"), Acq(f.blkno, "X"),
                   Plan([call EXCEPT !.kind = "deletenode", !.blkno = f.blkno])>>
    ELSE f.tr

\* a stretch of hnsw_search_layer: its events, then the next page read
SLEvents(r) == r.tr \o (IF r.next.kind = "done" THEN <<>> ELSE <<Plan(r.next)>>)

\* The handler from the point where it reads the index, on the pages and meta
\* page as they are then.  Writers and hnswgettuple hold the meta page from
\* there to their end, so nothing they read changes under them.
Continue(P, mp, E, call) ==
    CASE call.kind = "insert" ->
             Tail(hnswinsert(P, mp, E, call.vector, Len(P) + 1, call.level).tr)
      [] call.kind = "bulkdelete" ->
             Tail(hnswbulkdelete(P, mp, E, call.callback).tr)
      [] call.kind = "gettuple" ->
             Tail(hnswgettuple(P, mp, E,
                               hnswrescan(mp, hnswbeginscan, call.vector, 0, 0)).tr)
      [] call.kind = "delete" ->
             ContinueFound(call, hnswFindNodeByTid(P, E, call.tid, 1, <<>>))
      [] call.kind = "deletenode" ->
             Tail(Tail(DeleteNode(P, mp, E, call.blkno).tr))
      [] OTHER ->
             SLEvents(SLStep(P, E, call))

Running(t) == thr[t].pc \in {"run", "unwind"}
NextEvent(t) == Head(thr[t].tr)
AtEvent(t, op) == Running(t) /\ thr[t].tr # <<>> /\ NextEvent(t).op = op
\* the handler has returned (pc = "run") or its error has left the last PG_CATCH
\* block (pc = "unwind")
Exited(t) == Running(t) /\ thr[t].tr = <<>>

Holds(t, b) == \E i \in 1 .. Len(locks[t]) : locks[t][i].blk = b
HoldsMode(t, b, mode) ==
    \E i \in 1 .. Len(locks[t]) : locks[t][i].blk = b /\ locks[t][i].mode = mode

\* LWLockAcquire: a shared request waits for an exclusive holder, an exclusive
\* request for any holder; the requester's own locks count like everyone's
Grantable(b, mode) ==
    IF mode = "S" THEN \A u \in Threads : ~HoldsMode(u, b, "X")
    ELSE \A u \in Threads : ~Holds(u, b)

\* LWLockRelease: the most recent lock of the backend on the page
DropLock(held, b) ==
    IF \E i \in 1 .. Len(held) : held[i].blk = b
    THEN LET last == CHOOSE i \in 1 .. Len(held) :
                         /\ held[i].blk = b
                         /\ \A j \in i + 1 .. Len(held) : held[j].blk # b
         IN  SubSeq(held, 1, last - 1) \o SubSeq(held, last + 1, Len(held))
    ELSE held

InsertsRunning == Cardinality({t \in Threads : thr[t].op = "insert"})

Calls ==
    {[NoCall EXCEPT !.kind = "insert", !.vector = <<v>>, !.level = l] :
         v \in Coords, l \in Levels}
    \cup {[NoCall EXCEPT !.kind = "bulkdelete", !.callback = cb] :
              cb \in SUBSET LiveTids(pages) \ {{}}}
    \cup {[NoCall EXCEPT !.kind = "delete", !.tid = tid] : tid \in 1 .. Len(pages)}
    \cup {[NoCall EXCEPT !.kind = "gettuple", !.vector = <<v>>] : v \in Coords}

\* a backend enters hnswinsert, hnswbulkdelete, hnswdelete or hnswgettuple
Begin(t, call) ==
    /\ thr[t].pc = "idle"
    /\ call.kind = "insert" => Len(pages) + InsertsRunning < MaxLockPages
    /\ thr' = [thr EXCEPT ![t] = [pc |-> "run", op |-> call.kind, tr |-> Opening(call)]]
    /\ UNCHANGED <<pages, meta, locks, scan, called>>

\* a backend enters hnsw_search_layer with the entry point its caller read
BeginSearchLayer(t, query) ==
    /\ thr[t].pc = "idle"
    /\ thr' = [thr EXCEPT ![t] =
                  [pc |-> "run", op |-> "search_layer",
                   tr |-> SLEvents(SLStart(pages, meta, meta.entryPoint, meta.entryLevel,
                                           query, meta.efSearch, HNSW_DEFAULT_K))]]
    /\ UNCHANGED <<pages, meta, locks, scan, called>>

\* LockBuffer(buf, BUFFER_LOCK_SHARE / BUFFER_LOCK_EXCLUSIVE) returns
Acquire(t) ==
    /\ AtEvent(t, "acq")
    /\ Grantable(NextEvent(t).blk, NextEvent(t).arg)
    /\ locks' = [locks EXCEPT ![t] =
                    Append(@, [blk |-> NextEvent(t).blk, mode |-> NextEvent(t).arg])]
    /\ thr' = [thr EXCEPT ![t].tr = Tail(@)]
    /\ UNCHANGED <<pages, meta, scan, called>>

\* UnlockReleaseBuffer(buf), or LockBuffer(buf, BUFFER_LOCK_UNLOCK) in a PG_CATCH block
Release(t) ==
    /\ AtEvent(t, "rel")
    /\ locks' = [locks EXCEPT ![t] = DropLock(@, NextEvent(t).blk)]
    /\ thr' = [thr EXCEPT ![t].tr = Tail(@)]
    /\ UNCHANGED <<pages, meta, scan, called>>

\* the relation is extended, or a locked page is changed
Store(t) ==
    /\ Running(t) /\ thr[t].tr # <<>>
    /\ \/ /\ NextEvent(t).op = "ext"
          /\ pages' = Append(pages, EmptyPage)
          /\ UNCHANGED meta
       \/ /\ NextEvent(t).op = "wr"
          /\ pages' = [pages EXCEPT ![NextEvent(t).blk] = NextEvent(t).arg]
          /\ UNCHANGED meta
       \/ /\ NextEvent(t).op = "meta"
          /\ meta' = NextEvent(t).arg
          /\ UNCHANGED pages
    /\ thr' = [thr EXCEPT ![t].tr = Tail(@)]
    /\ UNCHANGED <<locks, scan, called>>

CallKills(call) == IF call.kind = "bulkdelete" THEN Cardinality(call.callback) ELSE 1

CallOracles(call) ==
    IF call.kind = "l0_enter"
    THEN Oracles(pages, 1)
             \cup [deadLevel : {0, HNSW_MAX_LEVEL}, oob : OobValues, stale : {"recycled"}]
    ELSE Oracles(pages, CallKills(call))

\* the backend reads the pages it has locked and goes on from what it finds
Read(t) ==
    /\ AtEvent(t, "plan")
    /\ \E E \in CallOracles(NextEvent(t).arg) :
           thr' = [thr EXCEPT ![t].tr =
                      Continue(pages, meta, E, NextEvent(t).arg) \o Tail(@)]
    /\ UNCHANGED <<pages, meta, locks, scan, called>>

\* CHECK_FOR_INTERRUPTS(): nothing is pending, or the query is cancelled and
\* the error unwinds through the PG_CATCH blocks on the stack; ereport(ERROR)
\* always unwinds
CheckForInterrupts(t) ==
    /\ \/ /\ AtEvent(t, "chk")
          /\ \/ thr' = [thr EXCEPT ![t].tr = Tail(@)]
             \/ thr' = [thr EXCEPT ![t].pc = "unwind", ![t].tr = NextEvent(t).arg]
       \/ /\ AtEvent(t, "error")
          /\ thr' = [thr EXCEPT ![t].pc = "unwind", ![t].tr = NextEvent(t).arg]
    /\ UNCHANGED <<pages, meta, locks, scan, called>>

\* the handler is left; the transaction's end (AbortTransaction calls
\* LWLockReleaseAll) takes back whatever the backend still holds
Finish(t) ==
    /\ Exited(t)
    /\ thr' = [thr EXCEPT ![t] = Idle]
    /\ locks' = [locks EXCEPT ![t] = <<>>]
    /\ UNCHANGED <<pages, meta, scan, called>>

NextLock ==
    \/ \E t \in Threads, call \in Calls : Begin(t, call)
    \/ \E t \in Threads, v \in Coords : BeginSearchLayer(t, <<v>>)
    \/ \E t \in Threads : Acquire(t)
    \/ \E t \in Threads : Release(t)
    \/ \E t \in Threads : Store(t)
    \/ \E t \in Threads : Read(t)
    \/ \E t \in Threads : CheckForInterrupts(t)
    \/ \E t \in Threads : Finish(t)

SpecLock == Init /\ [][NextLock]_vars

(***************************************************************************)
(* Searches to their end (SpecTerm)                                        *)
(***************************************************************************)
\* the node pages as a search reads them: as the handlers left them, or with
\* one node's layer-0 neighbour count overwritten
Seen ==
    IF called.fn = "corrupt"
    THEN Corrupted(pages, called.in.blkno, called.in.count)
    ELSE pages

AllIdle == \A t \in Threads : thr[t].pc = "idle"

\* an insert, a delete or a bulk-delete, start to end, while nobody searches
TermWrite ==
    /\ AllIdle
    /\ called = NoneCalled
    /\ \/ \E v \in Coords, l \in Levels : Len(pages) < MaxScanPages /\ Insert(<<v>>, l)
       \/ \E tid \in 1 .. Len(pages) : Delete(tid)
       \/ \E callback \in SUBSET LiveTids(pages) \ {{}} : BulkDelete(callback)

\* something outside the access method overwrites a neighbour count
TermCorrupt(blkno, count) ==
    /\ AllIdle
    /\ called = NoneCalled
    /\ pages[blkno].state = "normal"
    /\ called' = [fn |-> "corrupt", in |-> [blkno |-> blkno, count |-> count], out |-> <<>>]
    /\ UNCHANGED <<pages, meta, thr, locks, scan>>

\* a backend enters hnswgettuple for a first tuple.  Searches take shared
\* locks only and so never wait for each other: one runs at a time
TermBegin(t, query) ==
    /\ AllIdle
    /\ Begin(t, [NoCall EXCEPT !.kind = "gettuple", !.vector = query])

\* a backend enters hnsw_search_layer with the entry point its caller read
TermBeginSearchLayer(t, query) ==
    /\ AllIdle
    /\ thr' = [thr EXCEPT ![t] =
                  [pc |-> "run", op |-> "search_layer",
                   tr |-> SLEvents(SLStart(Seen, meta, meta.entryPoint, meta.entryLevel,
                                           query, meta.efSearch, HNSW_DEFAULT_K))]]
    /\ UNCHANGED <<pages, meta, locks, scan, called>>

\* the backend reads the pages it has locked and goes on from what it finds
TermRead(t) ==
    /\ AtEvent(t, "plan")
    /\ \E E \in CallOracles(NextEvent(t).arg) :
           thr' = [thr EXCEPT ![t].tr = Continue(Seen, meta, E, NextEvent(t).arg) \o Tail(@)]
    /\ UNCHANGED <<pages, meta, locks, scan, called>>

\* CHECK_FOR_INTERRUPTS(): nothing is pending, or the query is cancelled
TermInterrupt(t) ==
    /\ AtEvent(t, "chk")
    /\ \/ thr' = [thr EXCEPT ![t].tr = Tail(@)]
       \/ thr' = [thr EXCEPT ![t].pc = "unwind", ![t].tr = NextEvent(t).arg]
    /\ UNCHANGED <<pages, meta, locks, scan, called>>

\* a step of the search that backend t runs, other than a read
TermStep(t) ==
    \/ Acquire(t)
    \/ Release(t)
    \/ TermInterrupt(t)
    \/ Finish(t)

NextTerm ==
    \/ TermWrite
    \/ \E b \in 1 .. Len(pages), c \in CorruptCounts(meta.m) : TermCorrupt(b, c)
    \/ \E t \in Threads, v \in Coords : TermBegin(t, <<v>>)
    \/ \E t \in Threads, v \in Coords : TermBeginSearchLayer(t, <<v>>)
    \/ \E t \in Threads : TermStep(t)
    \/ \E t \in Threads : TermRead(t)

\* A backend that can take a step takes one: it runs until its call returns.
\* The second conjunct is WF_vars(TermRead(t)) with its ENABLED written out:
\* a read is possible exactly when the backend is at one, and it moves the
\* backend on.
SpecTerm ==
    /\ Init /\ [][NextTerm]_vars
    /\ \A t \in Threads :
           /\ WF_vars(TermStep(t))
           /\ ([]<>~AtEvent(t, "plan")) \/ ([]<><<AtEvent(t, "plan") /\ thr'[t] # thr[t]>>_vars)

(***************************************************************************)
(* Properties of the index after whole operations (Spec)                   *)
(***************************************************************************)
LiveBlocks == {b \in 1 .. Len(pages) : pages[b].state = "normal"}
DeadBlocks == {b \in 1 .. Len(pages) : pages[b].state = "dead"}

\* the neighbour list of live node b at layer l: the first neighborCount[l] slots
NeighborList(b, l) ==
    SubSeq(pages[b].neighbors[l], 1,
           hnswValidateNeighborCount(pages[b].neighborCount[l], meta.m))

NeighborsValid ==
    \A b \in LiveBlocks : \A l \in 0 .. pages[b].level : \A i \in 1 .. 2 * meta.m :
        LET nb == pages[b].neighbors[l][i] IN
        nb # InvalidBlockNumber =>
            nb < RelationGetNumberOfBlocks(pages) /\ ~PageIsEmpty(pages, nb)

C13_OneNodePerPage ==
    \A b \in 1 .. Len(pages) :
        ~PageIsEmpty(pages, b) => PageGetMaxOffsetNumber(pages, b) = 1

\* live and dead pages side by side
C13_Witness ==
    /\ LiveBlocks # {} /\ DeadBlocks # {}
    /\ Len(pages) = MaxPages
    /\ \A b \in 1 .. Len(pages) : PageGetMaxOffsetNumber(pages, b) = 1

\* the results are at most k, nearest first
SortedTopK(out, k) ==
    /\ Len(out.results) <= k
    /\ \A i \in 1 .. Len(out.distances) : \A j \in i + 1 .. Len(out.distances) :
           out.distances[i] <= out.distances[j]

\* the results are the best k of the candidates: a candidate that is not among
\* them was left out of k results, none of which is farther than it
BestOfCandidates(out, k) ==
    /\ \A i \in 1 .. Len(out.results) : \E c \in 1 .. Len(out.cand) :
           out.cand[c].blk = out.results[i] /\ out.cand[c].dist = out.distances[i]
    /\ \A c \in 1 .. Len(out.cand) :
           (\A i \in 1 .. Len(out.results) : out.results[i] # out.cand[c].blk)
               => /\ Len(out.results) = k
                  /\ \A i \in 1 .. k : out.distances[i] <= out.cand[c].dist

\* C14: every search (hnswSearch and hnsw_search_layer) returns the best k of
\* the candidates it collected, at most k of them, in ascending order of
\* distance to the query.
C14_SearchTopK ==
    called.fn \in {"hnswSearch", "hnsw_search_layer"} =>
        SortedTopK(called.out, called.in.k) /\ BestOfCandidates(called.out, called.in.k)

\* the part of C14 that is about hnswSearch
C14_hnswSearchTopK ==
    called.fn = "hnswSearch" =>
        SortedTopK(called.out, called.in.k) /\ BestOfCandidates(called.out, called.in.k)

\* the index holds n nodes with n distinct vectors, n <= m, none deleted
DistinctNoDeletes ==
    /\ DeadBlocks = {}
    /\ Len(pages) >= 1 /\ Len(pages) <= meta.m
    /\ \A a \in LiveBlocks : \A b \in LiveBlocks :
           a # b => pages[a].vector # pages[b].vector

\* the search returned every node, nearest to the query first
AllNodesAscending ==
    /\ Len(called.out.results) = Len(pages)
    /\ \A b \in 1 .. Len(pages) : \E i \in 1 .. Len(called.out.results) :
           called.out.results[i] = b
    /\ \A i \in 1 .. Len(called.out.results) :
           called.out.distances[i] =
               hnswComputeDistance(called.in.query, pages[called.out.results[i]].vector, Len(called.in.query))
    /\ \A i \in 1 .. Len(called.out.distances) : \A j \in i + 1 .. Len(called.out.distances) :
           called.out.distances[i] <= called.out.distances[j]

\* the state is the return of an hnswSearch call that C15 is about
C15_Case ==
    /\ called.fn = "hnswSearch"
    /\ DistinctNoDeletes
    /\ called.in.k >= Len(pages)
    /\ called.in.efSearch >= Len(pages)

UnreturnedValid ==
    {j \in 1 .. Len(scan.so.results) :
        /\ \A i \in 1 .. Len(scan.returned) : scan.returned[i] # j
        /\ hnswValidateBlockNumber(scan.so.results[j], pages)
        /\ ~PageIsEmpty(pages, scan.so.results[j])}

NodesOf(P) == {b \in 1 .. Len(P) : P[b].state = "normal"}

\* the dimension the first node of P fixed
FirstDim(P) ==
    Len(P[CHOOSE b \in NodesOf(P) : \A c \in NodesOf(P) : b <= c].vector)

\* C18: all nodes of the index have the same dim, and an insert of a vector
\* whose dimension is not the one the first node fixed raises before it takes
\* a lock and leaves the index as it was.
C18_DimensionAgreement ==
    /\ \A b \in NodesOf(pages), c \in NodesOf(pages) :
           Len(pages[b].vector) = Len(pages[c].vector)
    /\ (/\ called.fn = "hnswinsert"
        /\ NodesOf(called.in.pages) # {}
        /\ called.in.dim # FirstDim(called.in.pages))
       => /\ called.out.raised
          /\ ~called.out.locked
          /\ pages = called.in.pages
          /\ meta = called.in.meta

\* the last call was an insert of a node that the free space of a page cannot hold
NoSpaceInsert ==
    /\ called.fn = "hnswinsert"
    /\ PageGetFreeSpace <
           hnswComputeNodeSizeSafe(called.in.dim, called.in.level, called.in.meta.m).result

\* C19: an insert of a node that does not fit in the free space of a page
\* raises, and the meta page, the size of the relation and every node page are
\* what they were before the call.
C19_NoSpaceMutatesNothing ==
    NoSpaceInsert =>
        /\ called.out.raised
        /\ meta = called.in.meta
        /\ RelationGetNumberOfBlocks(pages) = RelationGetNumberOfBlocks(called.in.pages)
        /\ \A b \in 1 .. Len(called.in.pages) : pages[b] = called.in.pages[b]

\* C20: for dim in 1 .. 32767, level in 0 .. 15 and m in 2 .. 128 the node-size
\* computation raises (reports an overflow) or returns a value that is at most
\* the page size and not below the sum of the node's parts (not truncated).
C20_NodeSizeBounded ==
    called.fn = "hnswComputeNodeSizeSafe" =>
        \/ called.out.overflow
        \/ /\ called.out.result <= BLCKSZ
           /\ called.out.result >=
                  SizeofHnswNodeData + called.in.dim * SizeofFloat4
                      + (called.in.level + 1) * called.in.m * 2 * SizeofBlockNumber

\* the values of the build that were not null
NonNull(isnulls) == {i \in 1 .. Len(isnulls) : ~isnulls[i]}

\* C21: the number of index tuples hnswbuild reports is the number of values it
\* inserted into the graph, which is the meta page's count of inserted vectors
\* after the build; null values are not counted.
C21_BuildCount ==
    (called.fn = "hnswbuild" /\ called.out.index_tuples # -1) =>
        /\ called.out.index_tuples = Cardinality(NonNull(called.in))
        /\ called.out.index_tuples = meta.insertedVectors

\* C22: a pass of hnswbulkdelete that follows a pass with the same predicate
\* removes no tuple and leaves the meta page and every node page as they were.
C22_IdempotentVacuum ==
    (called.fn = "hnswbulkdelete" /\ called.in.again) =>
        /\ called.out.tuples_removed = 0
        /\ meta = called.in.meta
        /\ pages = called.in.pages

\* the second of two passes that select two of three nodes, the first of which
\* removed them
C22_Witness ==
    /\ called.fn = "hnswbulkdelete"
    /\ called.in.again
    /\ Cardinality(called.in.callback) = 2
    /\ Len(pages) = 3
    /\ Cardinality({b \in 1 .. Len(pages) : pages[b].state = "dead"}) = 2

\* the elements of the sequence s
Range(s) == {s[i] : i \in 1 .. Len(s)}

\* C23: a search of an index in which a node's neighbor_count[0] is above 2m
\* returns (it does not abort), and the set of its results is a subset of the
\* results of the same search on the index with that count repaired to 2m.
C23_CorruptCountTolerated ==
    called.fn \in {"hnswSearch", "hnsw_search_layer"} =>
        Range(called.out.results) \subseteq Range(called.out.repaired)

\* a search that visits the corrupt node and returns two nodes of three
C23_Witness ==
    /\ called.fn = "hnswSearch"
    /\ called.in.count = 2 * meta.m + 5
    /\ \E i \in 1 .. Len(called.out.cand) : called.out.cand[i].blk = called.in.blkno
    /\ Len(called.out.results) = 2
    /\ Len(pages) = 3

C25_LayerParticipation ==
    \A v \in LiveBlocks : \A l \in Layers :
        l > pages[v].level =>
            /\ pages[v].neighborCount[l] = 0
            /\ \A b \in LiveBlocks :
                   l <= pages[b].level =>
                       \A i \in 1 .. Len(NeighborList(b, l)) : NeighborList(b, l)[i] # v

\* the distance from node v to node b, as the pruning computes it
DistTo(P, v, b) == hnswComputeDistance(P[v].vector, P[b].vector, Len(P[v].vector))

\* the entries of node v's layer-l list
ListSet(P, v, l, m) ==
    {P[v].neighbors[l][i] : i \in 1 .. hnswValidateNeighborCount(P[v].neighborCount[l], m)}

\* the insert that made pages' selected v at layer l, and v's layer-l list held
\* 2m entries before it
FullSelected(v, l) ==
    /\ Len(pages') = Len(pages) + 1
    /\ pages'[Len(pages')].state = "normal"
    /\ v \in 1 .. Len(pages) /\ pages[v].state = "normal"
    /\ l <= pages[v].level /\ l <= pages'[Len(pages')].level
    /\ pages[v].neighborCount[l] = 2 * meta.m
    /\ v \in ListSet(pages', Len(pages'), l, meta.m)

\* C26: when an insert adds the new node to a selected neighbour v whose layer
\* list already holds 2m entries, v's resulting list is the 2m nearest among its
\* previous neighbours and the new node: it has 2m entries taken from them, and
\* none that it dropped is nearer to v than one that it kept (so the new node
\* is kept whenever it is nearer than v's farthest previous neighbour).
C26_PruneKeepsNearest ==
    [][\A v \in 1 .. Len(pages) : \A l \in Layers :
          FullSelected(v, l) =>
              LET new == Len(pages')
                  before == ListSet(pages, v, l, meta.m) \cup {new}
                  after == ListSet(pages', v, l, meta.m)
              IN /\ pages'[v].neighborCount[l] = 2 * meta.m
                 /\ after \subseteq before
                 /\ \A kept \in after : \A dropped \in before \ after :
                        DistTo(pages', v, kept) <= DistTo(pages', v, dropped)]_vars

\* the insert that made pages' lists v, a node that was there before it, at
\* layer l, and v's layer-l count was below 2m before it
Listed(v, l) ==
    /\ Len(pages') = Len(pages) + 1
    /\ pages'[Len(pages')].state = "normal"
    /\ l <= pages'[Len(pages')].level
    /\ v \in 1 .. Len(pages) /\ pages[v].state = "normal"
    /\ v \in ListSet(pages', Len(pages'), l, meta.m)
    /\ pages[v].neighborCount[l] < 2 * meta.m

\* the entries stored in node v's item for layer l: above v's level only the
\* padding of the item holds any
StoredList(P, v, l, m) ==
    IF l <= P[v].level THEN ListSet(P, v, l, m)
    ELSE {P[v].pad[i] : i \in 1 .. Min(IF l = P[v].level + 1 THEN Len(P[v].pad) ELSE 0,
                                       hnswValidateNeighborCount(P[v].neighborCount[l], m))}

C28_EntryPointUpdate ==
    [][Len(pages') = Len(pages) + 1 =>
          LET blkno == Len(pages')
              level == pages'[blkno].level
          IN  IF meta.entryPoint = InvalidBlockNumber \/ level > meta.entryLevel
              THEN meta'.entryPoint = blkno /\ meta'.entryLevel = level
              ELSE meta'.entryPoint = meta.entryPoint /\ meta'.entryLevel = meta.entryLevel]_vars

\* three inserts and no delete: the first set the entry point, the second, of a
\* higher level, moved it, the third, of the entry level, left it
C28_Witness ==
    /\ Len(pages) = 3 /\ DeadBlocks = {} /\ meta.insertedVectors = 3
    /\ pages[1].level = 0 /\ pages[2].level = 1 /\ pages[3].level = 1
    /\ meta.entryPoint = 2 /\ meta.entryLevel = 1

\* C29: after any sequence of successful inserts and bulk-deletes, starting
\* from the empty index, inserted_count equals the number of live nodes, and it
\* is never negative.
C29_CountIsLiveNodes ==
    /\ meta.insertedVectors = Cardinality(LiveBlocks)
    /\ meta.insertedVectors >= 0

\* a bulk-delete removed the first node and an insert followed it
C29_Witness ==
    /\ Len(pages) = MaxScanPages
    /\ pages[1].state = "dead" /\ pages[Len(pages)].state = "normal"
    /\ called.fn = "hnswinsert"
    /\ meta.insertedVectors = Cardinality(LiveBlocks)
    /\ meta.insertedVectors < Len(pages)

EntryDeleted(b) ==
    /\ Len(pages') = Len(pages)
    /\ pages[b].state = "normal" /\ meta.entryPoint = b
    /\ \A c \in 1 .. Len(pages) : pages'[c].state = "dead" <=> (c = b \/ pages[c].state = "dead")

\* the live nodes in the lists of node b, over its layers
NeighborsOf(b) ==
    {n \in UNION {ListSet(pages, b, l, meta.m) : l \in 0 .. pages[b].level} :
        n \in LiveBlocks /\ n # b}

C32_BestFirst ==
    called.fn = "hnswSearch layer 0" =>
        LET out == called.out IN
        /\ \A i \in 1 .. Len(out.order) : \A j \in 1 .. Len(out.order[i].waiting) :
               out.order[i].dist <= out.order[i].waiting[j].dist
        /\ \A i \in 1 .. Len(out.left) : \A c \in 1 .. Len(out.cand) :
               out.left[i].dist > out.cand[c].dist

\* C33: a store into a search's visited list writes inside the list's
\* allocation, the list never holds more entries than its capacity, and the
\* capacity never exceeds HNSW_MAX_VISITED_CAPACITY (1 Mi entries)
C33_VisitedWithinCapacity ==
    called.fn \in {"hnswMarkVisited", "hnswSearch visited"} =>
        /\ called.out.written < called.out.room
        /\ called.out.visitedCount <= called.out.visitedCapacity
        /\ called.out.visitedCapacity <= HNSW_MAX_VISITED_CAPACITY

\* C34: a search that has begun (hnswgettuple's hnswSearch, or
\* hnsw_search_layer) comes to its end, and no step of it raises an error
C34_SearchTerminates ==
    /\ [](\A t \in Threads : \A i \in 1 .. Len(thr[t].tr) : thr[t].tr[i].op # "error")
    /\ \A t \in Threads : (thr[t].pc # "idle") ~> (thr[t].pc = "idle")

\* hnsw_search_layer has returned from an index in which a live node lists a
\* dead page and a neighbour count is out of range
C34_Witness ==
    \E t \in Threads :
        /\ Exited(t) /\ thr[t].pc = "run" /\ thr[t].op = "search_layer"
        /\ called.fn = "corrupt"
        /\ \E b \in 1 .. Len(pages) :
               /\ pages[b].state = "dead"
               /\ \E a \in 1 .. Len(pages) :
                      /\ pages[a].state = "normal"
                      /\ \E i \in 1 .. pages[a].neighborCount[0] : pages[a].neighbors[0][i] = b

\* C35: what a backend in hnswgettuple (hnswrescan's scan, hnswSearch) or in
\* hnsw_search_layer has still to do holds no exclusive lock request, no
\* extension of the relation and no store into a node page or the meta page
C35_SearchReadsOnly ==
    \A t \in Threads :
        thr[t].op \in {"gettuple", "search_layer"} =>
            \A i \in 1 .. Len(thr[t].tr) :
                /\ thr[t].tr[i].op \notin {"ext", "wr", "meta"}
                /\ thr[t].tr[i].op = "acq" => thr[t].tr[i].arg = "S"

\* a search of an index of two nodes has read its pages and is about to lock
\* a node page
C35_Witness ==
    \E t \in Threads :
        /\ thr[t].op \in {"gettuple", "search_layer"}
        /\ Len(pages) >= 2
        /\ AtEvent(t, "acq") /\ NextEvent(t).blk > 0

\* the events of kind op that backend t has still to come to
Pending(t, op) == {i \in 1 .. Len(thr[t].tr) : thr[t].tr[i].op = op}

\* the page ReadBuffer(index, P_NEW) gives, or gave, the insert of backend t
OwnBlkno(t) == IF Pending(t, "ext") # {} THEN Len(pages) + 1 ELSE Len(pages)

\* the block numbers in the neighbour tables of node
LinkedFrom(node) ==
    {node.neighbors[l][i] : l \in DOMAIN node.neighbors, i \in 1 .. 2 * meta.m} \ {InvalidBlockNumber}

\* C36: with two backends in hnswinsert at once, in every interleaving: an
\* insert that has read the index holds the meta page exclusively; the block
\* number it took for its node (RelationGetNumberOfBlocks) is the page P_NEW
\* gives it, which holds no other node; the back-links it writes and the
\* entry point it sets name that page; and it counts one more than the meta
\* page holds then
C36_ConcurrentInserts ==
    \A t \in Threads :
        (thr[t].op = "insert" /\ thr[t].pc = "run"
            /\ Pending(t, "ext") \cup Pending(t, "wr") \cup Pending(t, "meta") # {}) =>
            LET tr == thr[t].tr IN
            /\ HoldsMode(t, 0, "X")
            /\ \A u \in Threads \ {t} : ~Holds(u, 0)
            /\ \A i \in Pending(t, "ext") : tr[i].blk = Len(pages) + 1
            /\ \A i \in Pending(t, "wr") :
                   IF tr[i].blk = OwnBlkno(t)
                   THEN tr[i].blk <= Len(pages) =>
                            \/ pages[tr[i].blk] = EmptyPage
                            \/ pages[tr[i].blk].heapPtr = tr[i].arg.heapPtr
                   ELSE /\ tr[i].blk < OwnBlkno(t)
                        /\ LinkedFrom(tr[i].arg) \ LinkedFrom(pages[tr[i].blk]) \subseteq {OwnBlkno(t)}
            /\ \A i \in Pending(t, "meta") :
                   /\ tr[i].arg.insertedVectors = meta.insertedVectors + 1
                   /\ tr[i].arg.entryPoint \in {meta.entryPoint, OwnBlkno(t)}

\* the second of two inserts has written its node to page 2 and is about to
\* count it, the first having written page 1 and not yet left hnswinsert
C36_Witness ==
    \E t \in Threads, u \in Threads :
        /\ t # u
        /\ thr[t].op = "insert" /\ Exited(t)
        /\ thr[u].op = "insert" /\ thr[u].pc = "run" /\ AtEvent(u, "meta")
        /\ Len(pages) = 2 /\ pages[1].state = "normal" /\ pages[2].state = "normal"
        /\ meta.insertedVectors = 1

\* the heap tuples whose index nodes were removed: the insert of heap tuple
\* b wrote its node to page b
RemovedTids(P) == {b \in 1 .. Len(P) : P[b].state = "dead"}

\* C37: a call of hnswgettuple that returns true hands out no heap tid of a
\* tuple that hnswdelete or hnswbulkdelete has removed by then, whether the
\* result list was filled before the removal or after it
C37_NoRemovedTid ==
    [][Len(scan'.returned) = Len(scan.returned) + 1 =>
           scan'.so.xs_heaptid \notin RemovedTids(pages)]_vars

\* hnswgettuple has returned true for a result whose node is removed
C37_Witness ==
    /\ scan.ret = "true"
    /\ scan.so.results[scan.so.currentResult] \in RemovedTids(pages)
    /\ scan.so.xs_heaptid \notin RemovedTids(pages)

\* the pages whose node a step removes
Removes == {b \in 1 .. Len(pages) : pages[b].state = "normal" /\ pages'[b].state # "normal"}

\* the pages of the index that a step leaves different
Touched == {b \in 1 .. Len(pages) : pages'[b] # pages[b]}

\* C39: a node keeps its heap tid, level, dimension and vector for as long as
\* it lives, and what lies behind its neighbour tables is left alone; an
\* insert changes, of the pages there were, only pages its new node lists as
\* neighbours, and there only the neighbour tables of the node's layers and
\* their counts; a delete or bulk-delete changes, besides the pages it marks
\* dead, only pages that a removed node listed, in the same way
C39_Frame ==
    [][/\ \A b \in 1 .. Len(pages) :
              IF pages[b].state = "normal" /\ pages'[b].state = "normal"
              THEN /\ pages'[b].heapPtr = pages[b].heapPtr
                   /\ pages'[b].level = pages[b].level
                   /\ pages'[b].vector = pages[b].vector
                   /\ pages'[b].pad = pages[b].pad
                   /\ \A l \in Layers : l > pages[b].level =>
                          pages'[b].neighborCount[l] = pages[b].neighborCount[l]
              ELSE pages[b].state # "normal" => pages'[b] = pages[b]
       /\ Len(pages') > Len(pages) =>
              /\ Removes = {}
              /\ Touched \subseteq LinkedFrom(pages'[Len(pages')])
       /\ Len(pages') = Len(pages) =>
              Touched \ Removes \subseteq UNION {LinkedFrom(pages[d]) : d \in Removes}
      ]_vars

C10_InsertCounts ==
    DeadBlocks = {} =>
        /\ meta.insertedVectors = Len(pages)
        /\ (Len(pages) >= 1 => meta.entryPoint # InvalidBlockNumber)

C10_Witness ==
    /\ DeadBlocks = {}
    /\ Len(pages) = MaxPages
    /\ meta.insertedVectors = MaxPages
    /\ meta.entryPoint # InvalidBlockNumber

(***************************************************************************)
(* Properties of the handlers' locking (SpecLock)                          *)
(***************************************************************************)
OthersIdle(t) == \A u \in Threads \ {t} : thr[u].pc = "idle"
NodeBlocks == 1 .. MaxLockPages
Writers == {"insert", "delete", "bulkdelete"}
Searches == {"gettuple", "search_layer"}

\* C4: an insert, a bulk-delete, a delete or a search that runs alone never asks
\* for a lock on a page (meta or node) that the same backend already holds
\* locked, so it cannot block on itself.
C4_NoRelock ==
    \A t \in Threads :
        (OthersIdle(t) /\ AtEvent(t, "acq")) => ~Holds(t, NextEvent(t).blk)

\* C5: on every way out of a handler (return, error, interrupt) each lock it
\* took has been released exactly once: it never unlocks a page it does not
\* hold locked, and it leaves holding no lock.
C5_LocksReleased ==
    \A t \in Threads :
        /\ AtEvent(t, "rel") => Holds(t, NextEvent(t).blk)
        /\ Exited(t) => locks[t] = <<>>

\* C6: at every point of an insert, a delete or a bulk-delete the backend holds
\* at most one node page locked in write mode.
C6_OneWriteLock ==
    \A t \in Threads :
        thr[t].op \in Writers =>
            Cardinality({b \in NodeBlocks : HoldsMode(t, b, "X")}) <= 1

\* C7: no insert, delete or bulk-delete holds the meta page's exclusive lock at
\* the moment it asks for a node page's lock (to traverse or to change the graph).
C7_MetaNotHeld ==
    \A t \in Threads :
        (thr[t].op \in Writers /\ AtEvent(t, "acq") /\ NextEvent(t).blk >= 1)
            => ~HoldsMode(t, 0, "X")

\* C8: a search (hnswSearch under hnswgettuple, hnsw_search_layer) holds node
\* pages' shared locks one at a time: when it asks for a page's lock it holds
\* no other node page locked.
C8_OneSharedLock ==
    \A t \in Threads :
        (thr[t].op \in Searches /\ AtEvent(t, "acq") /\ NextEvent(t).blk >= 1)
            => \A b \in NodeBlocks : ~Holds(t, b)

Waiting(t) ==
    AtEvent(t, "acq") /\ ~Grantable(NextEvent(t).blk, NextEvent(t).arg)

\* u holds a lock that keeps t's request from being granted
Blocks(u, t) ==
    IF NextEvent(t).arg = "S"
    THEN HoldsMode(u, NextEvent(t).blk, "X")
    ELSE Holds(u, NextEvent(t).blk)

\* C9: however two or more concurrent operations interleave, there is no
\* deadlock: no state in which every backend of a set of them waits for a page
\* lock that another backend of the set holds.
C9_NoDeadlock ==
    ~ \E D \in SUBSET Threads :
          /\ Cardinality(D) >= 2
          /\ \A t \in D : Waiting(t) /\ \E u \in D \ {t} : Blocks(u, t)
====
